---- MODULE Spec2Model ----
(***************************************************************************)
(* Model of the SCDIS model-lifecycle core.                                *)
(*                                                                         *)
(* Part 1: backend/ml_pipeline/model_registry.py, class ModelRegistry.     *)
(* The registry is one JSON file holding production_model,                 *)
(* candidate_model and history.  Every method loads the whole file,        *)
(* changes the loaded dict and writes the whole dict back; there is no     *)
(* lock.  Two specifications are given:                                    *)
(*   SeqSpec - calls run one after the other (each call is one step);      *)
(*   Spec    - calls of several threads interleave at the points           *)
(*             where the code touches the file (load, open-for-write,      *)
(*             dump).                                                      *)
(* An artifact reference is the destination path                           *)
(* models_dir/model_<UTC second>.pkl; it is modelled by the clock second   *)
(* it is built from.  The "timestamp" field of history events is written   *)
(* and never read by any code, and is left out of the events.              *)
(*                                                                         *)
(* Part 2: services/benchmark_service.py, services/data_drift_monitor.py,  *)
(* ai_engine/retraining_engine.py and core/runtime_controller.py.          *)
(*   BenchSpec    - run_benchmark applied to registries and evaluation     *)
(*                  outcomes drawn from small sets;                        *)
(*   PipeSpec     - run_retraining_pipeline called on its own;             *)
(*   LifeSpec     - the three loops of the RuntimeController, the          *)
(*                  lifecycle loop step by step, with start(), stop()      *)
(*                  and other callers of the registry, in one second;      *)
(*   CooldownSpec - the lifecycle loop over more than one cooldown         *)
(*                  period, the clock stepping by a second or a period;    *)
(*   SetupSpec    - the lifecycle loop started on a registry that other    *)
(*                  callers filled beforehand;                             *)
(*   DriftSpec    - the lifecycle loop over several drift checks while     *)
(*                  performance reports are logged;                        *)
(*   HistorySpec  - the lifecycle loop left alone for more drift checks    *)
(*                  than the monitor's history keeps;                      *)
(*   HealthSpec   - the health-supervision loop beside the interleaved     *)
(*                  registry calls of Spec;                                *)
(*   BenchHistorySpec - run_benchmark repeated on one candidate;           *)
(*   AugSpec, AugLiveSpec - _augment_training_data of the retraining       *)
(*                  engine, one loop pass per step (AugLiveSpec: the       *)
(*                  call keeps running).                                   *)
(*   StopSpec     - the three loops with fair scheduling, for what         *)
(*                  happens after stop();                                  *)
(*   DriftErrSpec - drift checks on a registry file that interleaved       *)
(*                  writers may have left unreadable;                      *)
(*   RaceSpec     - the lifecycle loop while other callers register        *)
(*                  candidates between its benchmark and its promotion;    *)
(*   RestartSpec  - start() and stop() called at any moment, threads of    *)
(*                  an earlier start() counted in orphans;                 *)
(*   ManualSpec   - the lifecycle loop and POST /run-cycle requests        *)
(*                  (routes/runtime_control.py) on one Drift Monitor.      *)
(* time.sleep(interval) of a loop may return at any later step: the        *)
(* length of the interval is modelled in HistorySpec only.                 *)
(*                                                                         *)
(* Part 3: core/enterprise_failover_controller.py.                         *)
(*   FailSpec     - the calls of the failover controller in any order,     *)
(*                  beside the lifecycle loop and other registry callers.  *)
(* mae is an integer, r2_score is in thousandths, accuracy and             *)
(* performance drift are in percent; the clock is in seconds.              *)
(***************************************************************************)
EXTENDS Integers, Sequences, FiniteSets, Bags, TLC

\* ---------------------------------------------------------------- bounds
MaxTime == 3          \* clock seconds 1..MaxTime
MaxHistory == 8       \* SeqSpec: longest history explored
MaxCalls == 4         \* Spec: calls started by the concurrent workers
NumWorkers == 2       \* Spec: concurrent threads using the registry file
MaxLogs == 1          \* SeqSpec: performance_logged events kept in one history
MaxBenchEvents == 3   \* BenchSpec: registry events before the benchmarks
MaxBenchRuns == 1     \* BenchSpec: benchmarks recorded in the history
MaxCycles == 1        \* LifeSpec, SetupSpec: drift checks of the lifecycle loop
MaxLifeEvents == 3    \* LifeSpec: registry events written by other callers
MaxChecks == 2        \* CooldownSpec: drift checks of the lifecycle loop
MaxSeconds == 1       \* CooldownSpec: clock steps of one second
MaxCooldowns == 1     \* CooldownSpec: clock steps of one cooldown period
MaxSetupEvents == 4   \* SetupSpec: registry events written before start()
MaxPipeRuns == 1      \* PipeSpec: runs of the retraining pipeline
MaxRows == 2          \* AugSpec: rows of the input dataset
MaxMinRows == 3       \* AugSpec: the argument min_rows is in 1..MaxMinRows
MaxDriftLogs == 2     \* DriftSpec: performance reports logged by other callers
MaxHistoryChecks == 202  \* HistorySpec: drift checks of the lifecycle thread
MaxBenchHistory == 51  \* BenchHistorySpec: results in the benchmark history
MaxStopEvents == 2    \* StopSpec: history events written by other callers
MaxRaceEvents == 3    \* RaceSpec: history events written by other callers
MaxOrphans == 2       \* RestartSpec: older threads of one loop still alive
MaxManualChecks == 2  \* ManualSpec: drift checks of the thread and the requests
MaxFailEvents == 2    \* FailSpec: history events written by other callers

\* core/config.py
RETRAIN_COOLDOWN_SECONDS == 86400
DRIFT_THRESHOLD == 150               \* 1.5, drift scores are in hundredths
PERFORMANCE_DRIFT_THRESHOLD == 15    \* 0.15, in percent
RUNTIME_LIFECYCLE_INTERVAL == 60     \* config.py
DRIFT_HISTORY_LIMIT == 200           \* data_drift_monitor.py, [-200:]

Workers == 1..NumWorkers
Null == 0             \* Python None (paths are the seconds 1..MaxTime)
MetricValues == {50, 95}   \* accuracy (percent) passed to log_model_performance

VARIABLES
    registry_file,    \* content of settings.MODEL_REGISTRY_FILE
    now,              \* datetime.utcnow(), in whole seconds
    pc,               \* per worker: position inside the call it executes
    op,               \* per worker: the call it executes
    local,            \* per worker: the dict `registry` of the running call
    done,             \* Spec: bag of the calls completed by the workers
    last,             \* the call that completed last, whether it returned
                      \* (ok) or raised, and the parity of the completed calls
    registered,       \* artifact references returned by register_candidate_model
    lastRegistered,   \* reference returned by the latest successful register
    bench_result,     \* what the latest run_benchmark returned
    bench_history,    \* BenchmarkService.history
    last_drift_score, \* DataDriftMonitor.last_drift_score
    last_check_time,  \* DataDriftMonitor.last_check_time
    last_retrain_time, \* DataDriftMonitor.last_retrain_time
    drift_history,    \* DataDriftMonitor.drift_history
    last_run_status,  \* RetrainingEngine.last_run_status, per engine instance
    artifacts,        \* which pipeline run wrote FORECAST_/ANOMALY_MODEL_PATH
    running,          \* RuntimeController.running
    tpc,              \* position of the thread of each loop
    last_cycle_time,  \* RuntimeController.last_cycle_time
    drift_result,     \* lifecycle_loop: drift_result of the iteration
    production_path,  \* run_benchmark: production_model_path
    runs,             \* log of the run_retraining_pipeline executions
    checks,           \* log of the run_drift_check calls
    steps,            \* calls and returns of the current lifecycle iteration
    raised,           \* per loop: the step of the iteration that raised
    bench_dataset,    \* BenchSpec: what the latest run found at dataset_path
    aug_pc,           \* position inside _augment_training_data
    df,               \* _augment_training_data: the input rows
    min_rows,         \* _augment_training_data: the argument min_rows
    frames,           \* _augment_training_data: the list frames
    aug_return,       \* what _augment_training_data returned
    degraded_mode_active,  \* EnterpriseFailoverController.degraded_mode_active
    last_failover_time,    \* EnterpriseFailoverController.last_failover_time
    failover_running,      \* EnterpriseFailoverController.running
    candidate_path,   \* run_benchmark of the lifecycle loop: candidate_model_path
    orphans,          \* per loop: threads of an earlier start() still alive
    poll_pc,          \* /run-cycle request: its position
    poll_result,      \* /run-cycle request: its locals
    failover_log      \* the last call of the failover controller and its result

regVars == <<registry_file, now, pc, op, local, done, last, registered, lastRegistered>>
benchVars == <<bench_result, bench_history, bench_dataset>>
monVars == <<last_drift_score, last_check_time, last_retrain_time, drift_history>>
engVars == <<last_run_status, artifacts>>
ctlVars == <<running, tpc, last_cycle_time, drift_result, production_path>>
logVars == <<runs, checks, steps, raised>>
augVars == <<aug_pc, df, min_rows, frames, aug_return>>
failVars == <<degraded_mode_active, last_failover_time, failover_running, failover_log>>
raceVars == <<candidate_path, orphans, poll_pc, poll_result>>
sideVars == <<augVars, failVars, raceVars>>
extVars == <<benchVars, monVars, engVars, ctlVars, logVars, sideVars>>
vars == <<regVars, extVars>>

\* ------------------------------------------------------ registry contents
default_registry ==
    [production_model |-> Null, candidate_model |-> Null, history |-> <<>>]

\* A file that json.load cannot parse: Empty after open(registry_file, "w")
\* truncated it and before json.dump wrote it, Garbled when a dump wrote a
\* shorter text over the text of an overlapping writer.
Empty == [corrupt |-> "empty"]
Garbled == [corrupt |-> "garbled"]
IsCorrupt(f) == "corrupt" \in DOMAIN f

NoCall == [name |-> "none", arg |-> 0]

\* previous_models = [x for x in history if x["event"] == "candidate_promoted"]
IsPromoted(x) == x.event = "candidate_promoted"
previous_models(history) == SelectSeq(history, IsPromoted)

\* register_candidate_model, lines 84-89, on the loaded dict
register_candidate_model(registry, dest_path) ==
    [registry EXCEPT
        !.candidate_model = dest_path,
        !.history = Append(@, [event |-> "candidate_registered",
                               path |-> dest_path])]

\* promote_candidate_to_production, lines 104-119, on the loaded dict
promote_raises(registry) == registry.candidate_model = Null

promote_keeps_candidate(registry) ==
    LET candidate == registry.candidate_model
        previous_production == registry.production_model
    IN [registry EXCEPT
           !.production_model = candidate,
           !.history = Append(@, [event |-> "candidate_promoted",
                                  new_production |-> candidate,
                                  previous_production |-> previous_production])]

promote_candidate_to_production(registry) ==
    LET candidate == registry.candidate_model
        previous_production == registry.production_model
    IN [registry EXCEPT
           !.production_model = candidate,
           !.candidate_model = Null,
           !.history = Append(@, [event |-> "candidate_promoted",
                                  new_production |-> candidate,
                                  previous_production |-> previous_production])]

\* rollback_production, lines 132-150, on the loaded dict
rollback_raises(registry) == Len(previous_models(registry.history)) < 2

rollback_production_latest(registry) ==
    LET pm == previous_models(registry.history)
        lastpm == pm[Len(pm)]                \* previous_models[-1]
    IN [registry EXCEPT
           !.production_model = lastpm.new_production,
           !.history = Append(@, [event |-> "rollback",
                                  target |-> lastpm.new_production])]

rollback_production_stale_pointer(registry) ==
    LET pm == previous_models(registry.history)
        lastpm == pm[Len(pm) - 1]
    IN [registry EXCEPT
           !.history = Append(@, [event |-> "rollback",
                                  target |-> lastpm.new_production])]

rollback_production_previous(registry) ==
    LET pm == previous_models(registry.history)
        lastpm == pm[Len(pm) - 1]
    IN [registry EXCEPT
           !.production_model = lastpm.previous_production,
           !.history = Append(@, [event |-> "rollback",
                                  target |-> lastpm.previous_production])]

rollback_production(registry) ==
    LET pm == previous_models(registry.history)
        lastpm == pm[Len(pm) - 1]            \* previous_models[-2]
    IN [registry EXCEPT
           !.production_model = lastpm.new_production,
           !.history = Append(@, [event |-> "rollback",
                                  target |-> lastpm.new_production])]

IsPerformance(x) == x.event = "performance_logged"

log_model_performance_drops_candidate(registry, metrics) ==
    [registry EXCEPT
        !.candidate_model = Null,
        !.history = Append(@, [event |-> "performance_logged",
                               metrics |-> metrics])]

\* log_model_performance, lines 178-184, on the loaded dict
log_model_performance(registry, metrics) ==
    [registry EXCEPT
        !.history = Append(@, [event |-> "performance_logged",
                               metrics |-> metrics])]

\* A method body between _load_registry and _save_registry gives: whether
\* it returns (ok) or raises, the dict it hands to _save_registry, and the
\* value it returns.
Raised(registry) == [ok |-> FALSE, registry |-> registry, ret |-> Null]
Returned(registry, ret) == [ok |-> TRUE, registry |-> registry, ret |-> ret]

\* register_candidate_model: shutil.copy raises when model_path cannot be
\* copied (copied = 0); dest_path is built from the clock second t.
register_body(registry, copied, t) ==
    IF copied = 0
    THEN Raised(registry)
    ELSE Returned(register_candidate_model(registry, t), t)

promote_body_unchecked(registry) ==
    Returned(promote_candidate_to_production(registry), Null)

\* promote_candidate_to_production
promote_body(registry) ==
    IF promote_raises(registry)
    THEN Raised(registry)
    ELSE Returned(promote_candidate_to_production(registry), Null)

rollback_body_offbyone(registry) ==
    LET pm == previous_models(registry.history) IN
    IF Len(pm) < 1
    THEN Raised(registry)
    ELSE Returned([registry EXCEPT
                      !.production_model = pm[Len(pm)].new_production,
                      !.history = Append(@, [event |-> "rollback",
                                             target |-> pm[Len(pm)].new_production])],
                  Null)

\* rollback_production
rollback_body(registry) ==
    IF rollback_raises(registry)
    THEN Raised(registry)
    ELSE Returned(rollback_production(registry), Null)

\* log_model_performance
log_body(registry, metrics) ==
    Returned(log_model_performance(registry, metrics), Null)

\* Dispatch of a call c = [name, arg] on the loaded dict at clock second t.
CallBody(c, registry, t) ==
    CASE c.name = "register" -> register_body(registry, c.arg, t)
      [] c.name = "promote" -> promote_body(registry)
      [] c.name = "rollback" -> rollback_body(registry)
      [] c.name = "log" -> log_body(registry, c.arg)

\* ------------------------------------------------------------------ Init
Kinds == {"lifecycle", "rl", "health"}     \* the three loops of start()

\* State after the constructors of BenchmarkService, DataDriftMonitor,
\* RetrainingEngine and RuntimeController; no thread exists before start().
ExtInit ==
    /\ bench_result = [status |-> "none"]
    /\ bench_history = <<>>
    /\ last_drift_score = 0
    /\ last_check_time = Null
    /\ last_retrain_time = Null
    /\ drift_history = <<>>
    /\ last_run_status = [e \in {"monitor", "controller"} |-> "idle"]
    /\ artifacts = [forecast |-> 0, anomaly |-> 0]
    /\ running = FALSE
    /\ tpc = [k \in Kinds |-> "none"]
    /\ last_cycle_time = Null
    /\ drift_result = [status |-> "none"]
    /\ production_path = Null
    /\ runs = <<>>
    /\ checks = <<>>
    /\ steps = <<>>
    /\ raised = [k \in Kinds |-> "none"]
    /\ bench_dataset = "none"
    /\ aug_pc = "idle"
    /\ df = <<>>
    /\ min_rows = 0
    /\ frames = <<>>
    /\ aug_return = [status |-> "none"]
    /\ degraded_mode_active = FALSE
    /\ last_failover_time = Null
    /\ failover_running = FALSE
    /\ candidate_path = Null
    /\ orphans = [k \in Kinds |-> 0]
    /\ poll_pc = "idle"
    /\ poll_result = [status |-> "none"]
    /\ failover_log = [call |-> "none", kind |-> "", status |-> "none",
                       timestamp |-> Null, seq |-> 0]

\* State after ModelRegistry.__init__ on a fresh installation: the file
\* did not exist and _initialize_registry wrote the default registry.
Init ==
    /\ registry_file = default_registry
    /\ now = 1
    /\ pc = [w \in Workers |-> "idle"]
    /\ op = [w \in Workers |-> NoCall]
    /\ local = [w \in Workers |-> default_registry]
    /\ done = EmptyBag
    /\ last = [name |-> "none", ok |-> TRUE, seq |-> 0]
    /\ registered = {}
    /\ lastRegistered = Null
    /\ ExtInit

\* The clock advances.
Tick ==
    /\ now < MaxTime
    /\ now' = now + 1
    /\ UNCHANGED <<registry_file, pc, op, local, done, last, registered, lastRegistered>>
    /\ UNCHANGED extVars

\* --------------------------------------------------------------- SeqSpec
\* One whole call, load to save, with no other call in between.
SeqCall(c) ==
    LET r == CallBody(c, registry_file, now) IN
    /\ Len(registry_file.history) < MaxHistory
    /\ registry_file' = r.registry
    /\ last' = [name |-> c.name, ok |-> r.ok, seq |-> 1 - last.seq]
    /\ registered' = IF c.name = "register" /\ r.ok
                     THEN registered \cup {r.ret} ELSE registered
    /\ lastRegistered' = IF c.name = "register" /\ r.ok
                         THEN r.ret ELSE lastRegistered
    /\ UNCHANGED <<now, pc, op, local, done>>
    /\ UNCHANGED extVars

SeqRegisterCandidate == \E a \in {0, 1} : SeqCall([name |-> "register", arg |-> a])
SeqPromoteCandidate == SeqCall([name |-> "promote", arg |-> 0])

\* refresh_registry: _initialize_registry overwrites the file.
SeqRefresh ==
    /\ registry_file' = default_registry
    /\ last' = [name |-> "refresh", ok |-> TRUE, seq |-> 1 - last.seq]
    /\ UNCHANGED <<now, pc, op, local, done, registered, lastRegistered>>
    /\ UNCHANGED extVars

SeqNext ==
    \/ Tick
    \/ SeqRegisterCandidate
    \/ SeqPromoteCandidate
    \/ SeqCall([name |-> "rollback", arg |-> 0])
    \/ (/\ Len(SelectSeq(registry_file.history, IsPerformance)) < MaxLogs
        /\ \E m \in MetricValues : SeqCall([name |-> "log", arg |-> m]))
    \/ SeqRefresh

SeqSpec == Init /\ [][SeqNext]_vars

\* ------------------------------------------------------------------ Spec
\* Threads of one process (the RuntimeController loops, the HTTP routes)
\* call the registry with no lock; their calls interleave at the file
\* accesses.

started == BagCardinality(done) + Cardinality({w \in Workers : pc[w] # "idle"})

\* The call of worker w returns or raises: it is logged as completed.
Complete(w, c, ok, ret) ==
    /\ pc' = [pc EXCEPT ![w] = "idle"]
    /\ op' = [op EXCEPT ![w] = NoCall]
    /\ local' = [local EXCEPT ![w] = default_registry]
    /\ done' = done (+) SetToBag({[name |-> c.name, arg |-> c.arg, ok |-> ok, ret |-> ret]})
    /\ last' = [name |-> c.name, ok |-> ok, seq |-> 1 - last.seq]
    /\ registered' = IF c.name = "register" /\ ok
                     THEN registered \cup {ret} ELSE registered
    /\ lastRegistered' = IF c.name = "register" /\ ok
                         THEN ret ELSE lastRegistered

MutatingCalls ==
    {[name |-> "register", arg |-> a] : a \in {0, 1}}
    \cup {[name |-> "promote", arg |-> 0], [name |-> "rollback", arg |-> 0]}
    \cup {[name |-> "log", arg |-> m] : m \in MetricValues}

\* Worker w enters a mutating method; its first statement is
\* registry = self._load_registry().
LoadRegistry(w) ==
    /\ pc[w] = "idle"
    /\ started < MaxCalls
    /\ ~IsCorrupt(registry_file)
    /\ \E c \in MutatingCalls :
          /\ op' = [op EXCEPT ![w] = c]
          /\ local' = [local EXCEPT ![w] = registry_file]
          /\ pc' = [pc EXCEPT ![w] = "loaded"]
    /\ UNCHANGED <<registry_file, now, done, last, registered, lastRegistered>>
    /\ UNCHANGED extVars

\* json.load raises on a file that is being rewritten: the call fails.
LoadRaises(w) ==
    /\ pc[w] = "idle"
    /\ started < MaxCalls
    /\ IsCorrupt(registry_file)
    /\ \E c \in MutatingCalls : Complete(w, c, FALSE, Null)
    /\ UNCHANGED <<registry_file, now>>
    /\ UNCHANGED extVars

\* The method body raises (nothing is saved).
BodyRaises(w) ==
    /\ pc[w] = "loaded"
    /\ ~CallBody(op[w], local[w], now).ok
    /\ Complete(w, op[w], FALSE, Null)
    /\ UNCHANGED <<registry_file, now>>
    /\ UNCHANGED extVars

\* The method body changes the loaded dict and _save_registry opens the
\* file for writing, which truncates it.
OpenForSave(w) ==
    /\ pc[w] = "loaded"
    /\ LET r == CallBody(op[w], local[w], now) IN
          /\ r.ok
          /\ local' = [local EXCEPT ![w] = r.registry]
          /\ op' = [op EXCEPT ![w] = [name |-> op[w].name, arg |-> op[w].arg,
                                       ret |-> r.ret]]
    /\ registry_file' = Empty
    /\ pc' = [pc EXCEPT ![w] = "writing"]
    /\ UNCHANGED <<now, done, last, registered, lastRegistered>>
    /\ UNCHANGED extVars

\* refresh_registry: _initialize_registry opens the file for writing.
OpenForRefresh(w) ==
    /\ pc[w] = "idle"
    /\ started < MaxCalls
    /\ op' = [op EXCEPT ![w] = [name |-> "refresh", arg |-> 0, ret |-> Null]]
    /\ local' = [local EXCEPT ![w] = default_registry]
    /\ registry_file' = Empty
    /\ pc' = [pc EXCEPT ![w] = "writing"]
    /\ UNCHANGED <<now, done, last, registered, lastRegistered>>
    /\ UNCHANGED extVars

\* What the file holds after `data` is dumped from offset 0 over `under`:
\* the data when the file was empty or held a text that is not longer
\* (the default registry is the shortest text there is), else either the
\* data or a data followed by the tail of the older text.
DumpOutcomes(under, data) ==
    IF under = Empty \/ under = default_registry \/ under = data
    THEN {data}
    ELSE {data, Garbled}

\* json.dump and the close of the file; the call returns.
Dump(w) ==
    /\ pc[w] = "writing"
    /\ registry_file' \in DumpOutcomes(registry_file, local[w])
    /\ Complete(w, op[w], TRUE, op[w].ret)
    /\ UNCHANGED now
    /\ UNCHANGED extVars

Next ==
    \/ Tick
    \/ \E w \in Workers :
          \/ LoadRegistry(w)
          \/ LoadRaises(w)
          \/ BodyRaises(w)
          \/ OpenForSave(w)
          \/ OpenForRefresh(w)
          \/ Dump(w)

Spec == Init /\ [][Next]_vars

\* ------------------------------------------------------------ BenchSpec
\* BenchmarkService (services/benchmark_service.py).

\* A dict lookup with a default: rec.get(f, d).
Get(rec, f, d) == IF f \in DOMAIN rec THEN rec[f] ELSE d

Metrics(mae, r2) == [mae |-> mae, r2_score |-> r2]

\* _evaluate_model, lines 94-95: the score of an artifact joblib cannot load.
Unloadable == Metrics(999999, -1000)

\* Scores a loadable artifact can get on the benchmark dataset.
EvalMetrics ==
    {Metrics(9, 820), Metrics(10, 800), Metrics(11, 830), Metrics(11, 810),
     Metrics(10, 0), Metrics(10, -1000), Metrics(11, -1010)}

\* What happens when an artifact is evaluated: joblib.load fails, or
\* model.predict raises, or the artifact gets a score.
EvalInputs ==
    {[load |-> "fails", predict |-> "ok", metrics |-> Unloadable]}
    \cup {[load |-> "ok", predict |-> "raises", metrics |-> Metrics(10, 800)]}
    \cup {[load |-> "ok", predict |-> "ok", metrics |-> m] : m \in EvalMetrics}

\* joblib.load(None) raises as a missing file does.
EvalOf(model_path, e) ==
    IF model_path = Null
    THEN [load |-> "fails", predict |-> "ok", metrics |-> Unloadable]
    ELSE e

\* _evaluate_model, the value it returns when it returns.
evaluate_model(e) == IF e.load = "fails" THEN Unloadable ELSE e.metrics

\* _evaluate_model raises when model.predict (or a metric) raises: only the
\* load is inside the try.
evaluate_raises(e) == e.load = "ok" /\ e.predict = "raises"

deployment_decision_wide_margin(prod_metrics, cand_metrics) ==
    LET mae_improved == cand_metrics.mae < prod_metrics.mae
        r2_improved == cand_metrics.r2_score > prod_metrics.r2_score
    IN IF mae_improved /\ r2_improved
       THEN TRUE
       ELSE cand_metrics.r2_score * 1000 > prod_metrics.r2_score * 1200

\* _deployment_decision; r2 * 1.02 is compared as r2 * 1020 / 1000.
deployment_decision(prod_metrics, cand_metrics) ==
    LET mae_improved == cand_metrics.mae < prod_metrics.mae
        r2_improved == cand_metrics.r2_score > prod_metrics.r2_score
    IN IF mae_improved /\ r2_improved
       THEN TRUE
       ELSE IF cand_metrics.r2_score * 1000 > prod_metrics.r2_score * 1020
            THEN TRUE
            ELSE FALSE

run_benchmark_dataset_first(production_model_path, candidate_model_path, dataset, pe, ce, t) ==
    IF dataset = "missing"
    THEN [raised |-> FALSE, result |-> [status |-> "benchmark_dataset_missing"]]
    ELSE IF candidate_model_path = Null
    THEN [raised |-> FALSE, result |-> [status |-> "no_candidate_model"]]
    ELSE IF dataset = "unreadable"
    THEN [raised |-> TRUE, result |-> [status |-> "raised"]]
    ELSE IF evaluate_raises(EvalOf(production_model_path, pe))
            \/ evaluate_raises(EvalOf(candidate_model_path, ce))
    THEN [raised |-> TRUE, result |-> [status |-> "raised"]]
    ELSE LET production_metrics == evaluate_model(EvalOf(production_model_path, pe))
             candidate_metrics == evaluate_model(EvalOf(candidate_model_path, ce))
         IN [raised |-> FALSE,
             result |-> [timestamp |-> t,
                         production_metrics |-> production_metrics,
                         candidate_metrics |-> candidate_metrics,
                         deployment_recommended |->
                             deployment_decision(production_metrics,
                                                 candidate_metrics)]]

\* run_benchmark from the two paths read from the registry.  dataset is
\* "missing" (os.path.exists is false), "unreadable" (pd.read_csv or
\* df["energy_usage"] raises) or "ok"; pe, ce are the evaluations of the
\* production and the candidate artifact; t is the clock.
\* Gives whether the call raises and the dict it returns.
run_benchmark(production_model_path, candidate_model_path, dataset, pe, ce, t) ==
    IF candidate_model_path = Null
    THEN [raised |-> FALSE, result |-> [status |-> "no_candidate_model"]]
    ELSE IF dataset = "missing"
    THEN [raised |-> FALSE, result |-> [status |-> "benchmark_dataset_missing"]]
    ELSE IF dataset = "unreadable"
    THEN [raised |-> TRUE, result |-> [status |-> "raised"]]
    ELSE IF evaluate_raises(EvalOf(production_model_path, pe))
            \/ evaluate_raises(EvalOf(candidate_model_path, ce))
    THEN [raised |-> TRUE, result |-> [status |-> "raised"]]
    ELSE LET production_metrics == evaluate_model(EvalOf(production_model_path, pe))
             candidate_metrics == evaluate_model(EvalOf(candidate_model_path, ce))
         IN [raised |-> FALSE,
             result |-> [timestamp |-> t,
                         production_metrics |-> production_metrics,
                         candidate_metrics |-> candidate_metrics,
                         deployment_recommended |->
                             deployment_decision(production_metrics,
                                                 candidate_metrics)]]

\* self.history.append(result), line 81: only a full result is recorded.
benchmark_history_after(history_, result) ==
    IF "deployment_recommended" \in DOMAIN result
    THEN Append(history_, result)
    ELSE history_

Datasets == {"missing", "unreadable", "ok"}

\* Other callers fill the registry before the benchmark runs.
BenchRegistryCall ==
    /\ Len(registry_file.history) < MaxBenchEvents
    /\ (SeqRegisterCandidate \/ SeqPromoteCandidate)

\* One run_benchmark call with no other registry call in between.
BenchRun ==
    /\ Len(bench_history) < MaxBenchRuns
    /\ \E dataset \in Datasets, pe \in EvalInputs, ce \in EvalInputs :
          LET r == run_benchmark(registry_file.production_model,
                                 registry_file.candidate_model,
                                 dataset, pe, ce, now) IN
          /\ bench_result' = r.result
          /\ bench_history' = benchmark_history_after(bench_history, r.result)
          /\ bench_dataset' = dataset
    /\ UNCHANGED <<regVars, monVars, engVars, ctlVars, logVars>>
    /\ UNCHANGED sideVars

BenchNext ==
    \/ Tick
    \/ BenchRegistryCall
    \/ BenchRun

BenchSpec == Init /\ [][BenchNext]_vars

\* ------------------------------------------------------------- LifeSpec
\* DataDriftMonitor (services/data_drift_monitor.py).

Min(a, b) == IF a < b THEN a ELSE b
Max(a, b) == IF a > b THEN a ELSE b

\* ModelRegistry.get_training_dataset: the reference dataset is always [].
get_training_dataset == <<>>

\* calculate_multi_feature_shift, in hundredths.  The datasets are given by
\* their rows and `shift` is the mean of the per-feature scores when both
\* datasets have rows; every feature is skipped when one of them is empty.
calculate_multi_feature_shift(current_data, reference_data, shift) ==
    IF Len(current_data) = 0 \/ Len(reference_data) = 0
    THEN 0
    ELSE Min(shift, 1000)

\* ModelRegistry.get_latest_model_performance: accuracy in percent.
get_latest_model_performance(registry) ==
    LET perf_logs == SelectSeq(registry.history, IsPerformance) IN
    IF Len(perf_logs) = 0 THEN 90 ELSE perf_logs[Len(perf_logs)].metrics

evaluate_model_performance_alarm_on_error(file) ==
    IF IsCorrupt(file)
    THEN 100
    ELSE Max(0, 100 - get_latest_model_performance(file))

\* evaluate_model_performance, in percent; 0 when the registry cannot be read.
evaluate_model_performance(file) ==
    IF IsCorrupt(file)
    THEN 0
    ELSE Max(0, 100 - get_latest_model_performance(file))

should_trigger_retraining_drift_only(drift_score, performance_drift) ==
    IF drift_score > DRIFT_THRESHOLD THEN TRUE ELSE FALSE

\* should_trigger_retraining, lines 116-124
should_trigger_retraining(drift_score, performance_drift) ==
    IF drift_score > DRIFT_THRESHOLD
    THEN TRUE
    ELSE IF performance_drift > PERFORMANCE_DRIFT_THRESHOLD
         THEN TRUE
         ELSE FALSE

retraining_cooldown_passed_inclusive(lrt, t) ==
    IF lrt = Null THEN TRUE ELSE t - lrt >= RETRAIN_COOLDOWN_SECONDS

\* retraining_cooldown_passed with self.last_retrain_time = lrt at clock t
retraining_cooldown_passed(lrt, t) ==
    IF lrt = Null THEN TRUE ELSE t - lrt > RETRAIN_COOLDOWN_SECONDS

classify_drift(drift_score) ==
    IF drift_score < 50 THEN "LOW"
    ELSE IF drift_score < 150 THEN "MEDIUM"
    ELSE "HIGH"

LastN_keeps_oldest(seq, n) ==
    IF Len(seq) <= n THEN seq ELSE SubSeq(seq, 1, n)

\* self.drift_history = self.drift_history[-200:]
LastN(seq, n) ==
    IF Len(seq) <= n THEN seq ELSE SubSeq(seq, Len(seq) - n + 1, Len(seq))

\* What run_drift_check returns, lines 65-71.
drift_check_result(drift_score, performance_drift, retrain_required, t) ==
    [drift_score |-> drift_score,
     severity |-> classify_drift(drift_score),
     performance_drift |-> performance_drift,
     retraining_triggered |-> retrain_required,
     timestamp |-> t]

\* RetrainingEngine (ai_engine/retraining_engine.py).
\* What a run of the pipeline meets: the dataset file is "missing", is
\* "empty" (a header and no row), is "unreadable" (pd.read_csv raises), the
\* forecast training or dump raises ("forecast_fails"), the anomaly training
\* or dump raises after the forecast model was dumped ("anomaly_fails"),
\* ModelLoader.reload_models raises after both dumps ("reload_fails"), or
\* nothing raises ("ok").
PipelineScenarios ==
    {"missing", "empty", "unreadable", "forecast_fails", "anomaly_fails",
     "reload_fails", "ok"}

run_retraining_pipeline_load_outside_try(scenario) ==
    [raised |-> scenario = "unreadable",
     status |-> IF scenario \in {"missing", "empty"} THEN "skipped"
                ELSE IF scenario = "ok" THEN "completed" ELSE "failed",
     forecast_written |-> scenario \in {"anomaly_fails", "reload_fails", "ok"},
     anomaly_written |-> scenario \in {"reload_fails", "ok"}]

\* run_retraining_pipeline: whether it raises, the status it returns and
\* the model files it has overwritten.  It takes no registry and calls none.
run_retraining_pipeline(scenario) ==
    [raised |-> FALSE,
     status |-> IF scenario \in {"missing", "empty"} THEN "skipped"
                ELSE IF scenario = "ok" THEN "completed" ELSE "failed",
     forecast_written |-> scenario \in {"anomaly_fails", "reload_fails", "ok"},
     anomaly_written |-> scenario \in {"reload_fails", "ok"}]

\* The scenarios the pipeline runs of the lifecycle loop draw from: one for
\* each status the pipeline returns.
LifeScenarios == {"missing", "unreadable", "ok"}

\* Lines 136-139: the run of engine e starts at the clock `now`.
PipelineStarts(e) ==
    /\ runs' = Append(runs, [engine |-> e, started_at |-> now,
                             scenario |-> "running", status |-> "running"])
    /\ last_run_status' = [last_run_status EXCEPT ![e] = "running"]
    /\ UNCHANGED artifacts

\* Lines 141-196: run k, in progress, meets `scenario` and ends with outcome r.
RunEnds(k, scenario, r) ==
    /\ runs' = [runs EXCEPT ![k].scenario = scenario,
                            ![k].status = IF r.raised THEN "raised"
                                          ELSE r.status]
    /\ last_run_status' = IF r.raised THEN last_run_status
                          ELSE [last_run_status EXCEPT
                                   ![runs[k].engine] = r.status]
    /\ artifacts' = [forecast |-> IF r.forecast_written THEN k
                                  ELSE artifacts.forecast,
                     anomaly |-> IF r.anomaly_written THEN k
                                 ELSE artifacts.anomaly]

\* Lines 141-196: the run of the lifecycle thread ends.  Its run is the
\* latest run in progress that is not the run of the /run-cycle request.
PipelineEnds(scenario, r) ==
    LET S == {i \in 1..Len(runs) : /\ runs[i].status = "running"
                                   /\ i # Get(poll_result, "run", 0)}
    IN RunEnds(CHOOSE i \in S : \A j \in S : j <= i, scenario, r)

\* RuntimeController (core/runtime_controller.py).
\* tpc[k] is the position of the thread of loop k:
\*   "none"    no thread was started       "exited"  the while loop has ended
\*   "test"    at `while self.running`     "sleep"   in time.sleep(interval)
\* and for the lifecycle thread, inside the try block:
\*   "drift"        calling run_drift_check
\*   "mon_retrain"  in run_drift_check, inside the monitor's pipeline run
\*   "checked"      run_drift_check has returned, line 80
\*   "retrain"      inside the loop's own run_retraining_pipeline, line 82
\*   "bench"        calling run_benchmark, line 84
\*   "bench_read"   in run_benchmark, production path read, line 50
\*   "promote"      calling promote_candidate_to_production, line 88

Goto(k, label) == tpc' = [tpc EXCEPT ![k] = label]

Caught_ends_loop(k, step) ==
    /\ raised' = [raised EXCEPT ![k] = step]
    /\ Goto(k, "exited")

\* except Exception: logger.exception(...), then time.sleep
Caught(k, step) ==
    /\ raised' = [raised EXCEPT ![k] = step]
    /\ Goto(k, "sleep")

\* start(): returns at once when running; else sets the flag and starts the
\* three threads.  Taken when no thread of an earlier start() is alive.
Start ==
    /\ ~running
    /\ \A k \in Kinds : tpc[k] \in {"none", "exited"}
    /\ running' = TRUE
    /\ tpc' = [k \in Kinds |-> "test"]
    /\ UNCHANGED <<last_cycle_time, drift_result, production_path>>
    /\ UNCHANGED <<regVars, benchVars, monVars, engVars, logVars>>
    /\ UNCHANGED sideVars

\* stop()
Stop ==
    /\ running
    /\ running' = FALSE
    /\ UNCHANGED <<tpc, last_cycle_time, drift_result, production_path>>
    /\ UNCHANGED <<regVars, benchVars, monVars, engVars, logVars>>
    /\ UNCHANGED sideVars

\* The clock advances by a second or by one cooldown period.
LifeTick ==
    /\ \/ /\ (now - 1) % RETRAIN_COOLDOWN_SECONDS < MaxSeconds
          /\ now' = now + 1
       \/ /\ (now - 1) \div RETRAIN_COOLDOWN_SECONDS < MaxCooldowns
          /\ now' = now + RETRAIN_COOLDOWN_SECONDS
    /\ UNCHANGED <<registry_file, pc, op, local, done, last, registered, lastRegistered>>
    /\ UNCHANGED extVars

\* A registry call of another caller (API routes, training scripts): a
\* registration that copies its artifact, a promotion, or a performance log
\* with an accuracy of 50 percent.
OtherRegistryCall ==
    \/ SeqCall([name |-> "register", arg |-> 1])
    \/ SeqPromoteCandidate
    \/ /\ Len(SelectSeq(registry_file.history, IsPerformance)) < MaxLogs
       /\ SeqCall([name |-> "log", arg |-> 50])

LifeRegistryCall ==
    /\ Len(registry_file.history) < MaxLifeEvents
    /\ OtherRegistryCall

\* The only other call is the performance log.
CooldownRegistryCall ==
    /\ Len(SelectSeq(registry_file.history, IsPerformance)) < MaxLogs
    /\ SeqCall([name |-> "log", arg |-> 50])

\* The registry is filled before start(), while seconds pass.
SetupRegistryCall ==
    /\ \A k \in Kinds : tpc[k] = "none"
    /\ Len(registry_file.history) < MaxSetupEvents
    /\ OtherRegistryCall

SetupTick ==
    /\ \A k \in Kinds : tpc[k] = "none"
    /\ Tick

\* `while self.running:` of loop k
LoopExits(k) ==
    /\ tpc[k] = "test"
    /\ ~running
    /\ Goto(k, "exited")
    /\ UNCHANGED <<running, last_cycle_time, drift_result, production_path>>
    /\ UNCHANGED <<regVars, benchVars, monVars, engVars, logVars>>
    /\ UNCHANGED sideVars

\* time.sleep(interval) of loop k returns
LoopWakes(k) ==
    /\ tpc[k] = "sleep"
    /\ Goto(k, "test")
    /\ UNCHANGED <<running, last_cycle_time, drift_result, production_path>>
    /\ UNCHANGED <<regVars, benchVars, monVars, engVars, logVars>>
    /\ UNCHANGED sideVars

LifecycleBegins_without_test ==
    /\ tpc["lifecycle"] = "test"
    /\ Goto("lifecycle", "drift")
    /\ steps' = <<"drift_call">>
    /\ UNCHANGED <<runs, checks, raised>>
    /\ UNCHANGED <<running, last_cycle_time, drift_result, production_path>>
    /\ UNCHANGED <<regVars, benchVars, monVars, engVars>>
    /\ UNCHANGED sideVars

\* Line 74-75: the lifecycle loop enters its try block.
LifecycleBegins ==
    /\ tpc["lifecycle"] = "test"
    /\ running
    /\ Goto("lifecycle", "drift")
    /\ steps' = <<"drift_call">>
    /\ UNCHANGED <<runs, checks, raised>>
    /\ UNCHANGED <<running, last_cycle_time, drift_result, production_path>>
    /\ UNCHANGED <<regVars, benchVars, monVars, engVars>>
    /\ UNCHANGED sideVars

\* run_drift_check lines 51-71, after the retraining decision: executed
\* tells whether the monitor ran the pipeline, called_at is the clock at
\* the call.
MonitorReturns(drift_score, performance_drift, retrain_required, executed, called_at) ==
    /\ last_retrain_time' = IF executed THEN now ELSE last_retrain_time
    /\ last_drift_score' = drift_score
    /\ last_check_time' = now
    /\ drift_history' =
          LastN(Append(drift_history,
                       [timestamp |-> now, drift_score |-> drift_score,
                        performance_drift |-> performance_drift]),
                DRIFT_HISTORY_LIMIT)
    /\ checks' = Append(checks, [called_at |-> called_at,
                                 triggered |-> retrain_required,
                                 executed |-> executed,
                                 retrain_time_before |-> last_retrain_time,
                                 retrain_time_after |-> last_retrain_time',
                                 result |->
                                    drift_check_result(drift_score,
                                                       performance_drift,
                                                       retrain_required,
                                                       now)])

\* run_drift_check called by the lifecycle loop returns.
DriftCheckReturns(drift_score, performance_drift, retrain_required, executed, called_at) ==
    /\ MonitorReturns(drift_score, performance_drift, retrain_required,
                      executed, called_at)
    /\ drift_result' = drift_check_result(drift_score, performance_drift,
                                          retrain_required, now)
    /\ steps' = steps \o (IF executed THEN <<"monitor_retrain_return">>
                           ELSE <<>>) \o <<"drift_return">>
    /\ Goto("lifecycle", "checked")

\* Line 78 and run_drift_check lines 37-49.
DriftCheck ==
    /\ tpc["lifecycle"] = "drift"
    /\ \E current_data \in {<<>>, <<1>>}, shift \in {0, 200} :
          LET drift_score == calculate_multi_feature_shift(
                                 current_data, get_training_dataset, shift)
              performance_drift == evaluate_model_performance(registry_file)
              retrain_required == should_trigger_retraining(drift_score,
                                                            performance_drift)
          IN IF retrain_required
                /\ retraining_cooldown_passed(last_retrain_time, now)
             THEN /\ PipelineStarts("monitor")
                  /\ drift_result' = [status |-> "checking",
                                      drift_score |-> drift_score,
                                      performance_drift |-> performance_drift,
                                      called_at |-> now]
                  /\ steps' = steps \o <<"monitor_retrain_call">>
                  /\ Goto("lifecycle", "mon_retrain")
                  /\ UNCHANGED <<monVars, checks>>
             ELSE /\ DriftCheckReturns(drift_score, performance_drift,
                                       retrain_required, FALSE, now)
                  /\ UNCHANGED <<engVars, runs>>
    /\ UNCHANGED <<raised, running, last_cycle_time, production_path>>
    /\ UNCHANGED <<regVars, benchVars>>
    /\ UNCHANGED sideVars

\* run_drift_check lines 48-71: the monitor's pipeline run ends.
MonitorRetrainEnds ==
    /\ tpc["lifecycle"] = "mon_retrain"
    /\ \E scenario \in LifeScenarios :
          LET r == run_retraining_pipeline(scenario) IN
          /\ PipelineEnds(scenario, r)
          /\ IF r.raised
             THEN /\ Caught("lifecycle", "drift")
                  /\ steps' = steps \o <<"monitor_retrain_raise">>
                  /\ UNCHANGED <<monVars, drift_result, checks>>
             ELSE /\ DriftCheckReturns(drift_result.drift_score,
                                       drift_result.performance_drift,
                                       TRUE, TRUE, drift_result.called_at)
                  /\ UNCHANGED raised
    /\ UNCHANGED <<running, last_cycle_time, production_path>>
    /\ UNCHANGED <<regVars, benchVars>>
    /\ UNCHANGED sideVars

AfterDriftCheck_retrains_always ==
    /\ tpc["lifecycle"] = "checked"
    /\ PipelineStarts("controller")
    /\ steps' = steps \o <<"retrain_call">>
    /\ Goto("lifecycle", "retrain")
    /\ UNCHANGED last_cycle_time
    /\ UNCHANGED <<checks, raised, running, drift_result, production_path>>
    /\ UNCHANGED <<regVars, benchVars, monVars>>
    /\ UNCHANGED sideVars

\* Lines 80-82 and 90: the loop's own retraining call, or the end of the try.
AfterDriftCheck ==
    /\ tpc["lifecycle"] = "checked"
    /\ IF drift_result.retraining_triggered
       THEN /\ PipelineStarts("controller")
            /\ steps' = steps \o <<"retrain_call">>
            /\ Goto("lifecycle", "retrain")
            /\ UNCHANGED last_cycle_time
       ELSE /\ last_cycle_time' = now
            /\ Goto("lifecycle", "sleep")
            /\ UNCHANGED <<engVars, runs, steps>>
    /\ UNCHANGED <<checks, raised, running, drift_result, production_path>>
    /\ UNCHANGED <<regVars, benchVars, monVars>>
    /\ UNCHANGED sideVars

\* Line 82: the loop's own pipeline run ends.
RetrainEnds ==
    /\ tpc["lifecycle"] = "retrain"
    /\ \E scenario \in LifeScenarios :
          LET r == run_retraining_pipeline(scenario) IN
          /\ PipelineEnds(scenario, r)
          /\ IF r.raised
             THEN /\ Caught("lifecycle", "retrain")
                  /\ steps' = steps \o <<"retrain_raise">>
             ELSE /\ Goto("lifecycle", "bench")
                  /\ steps' = steps \o <<"retrain_return">>
                  /\ UNCHANGED raised
    /\ UNCHANGED <<checks, running, last_cycle_time, drift_result, production_path>>
    /\ UNCHANGED <<regVars, benchVars, monVars>>
    /\ UNCHANGED sideVars

BenchmarkStarts_promotes_at_once ==
    /\ tpc["lifecycle"] = "bench"
    /\ production_path' = registry_file.production_model
    /\ steps' = steps \o <<"benchmark_call">>
    /\ Goto("lifecycle", "promote")
    /\ UNCHANGED <<runs, checks, raised>>
    /\ UNCHANGED <<running, last_cycle_time, drift_result>>
    /\ UNCHANGED <<regVars, benchVars, monVars, engVars>>
    /\ UNCHANGED sideVars

\* Line 84 and run_benchmark line 50: get_production_model_path.
BenchmarkStarts ==
    /\ tpc["lifecycle"] = "bench"
    /\ production_path' = registry_file.production_model
    /\ steps' = steps \o <<"benchmark_call">>
    /\ Goto("lifecycle", "bench_read")
    /\ UNCHANGED <<runs, checks, raised>>
    /\ UNCHANGED <<running, last_cycle_time, drift_result>>
    /\ UNCHANGED <<regVars, benchVars, monVars, engVars>>
    /\ UNCHANGED sideVars

\* Artifact evaluations met by the benchmark of the lifecycle loop.
LifeEvals ==
    {[load |-> "ok", predict |-> "ok", metrics |-> Metrics(9, 820)],
     [load |-> "ok", predict |-> "ok", metrics |-> Metrics(10, -1000)],
     [load |-> "ok", predict |-> "ok", metrics |-> Metrics(11, -1010)]}

\* run_benchmark lines 51-85 and lifecycle_loop lines 86-90.
BenchmarkEnds ==
    /\ tpc["lifecycle"] = "bench_read"
    /\ candidate_path' = registry_file.candidate_model
    /\ \E dataset \in Datasets, pe \in LifeEvals, ce \in LifeEvals :
          LET r == run_benchmark(production_path,
                                 registry_file.candidate_model,
                                 dataset, pe, ce, now) IN
          IF r.raised
          THEN /\ Caught("lifecycle", "benchmark")
               /\ steps' = steps \o <<"benchmark_raise">>
               /\ UNCHANGED <<benchVars, last_cycle_time>>
          ELSE /\ bench_result' = r.result
               /\ bench_history' = benchmark_history_after(bench_history,
                                                           r.result)
               /\ UNCHANGED bench_dataset
               /\ steps' = steps \o <<"benchmark_return">>
               /\ UNCHANGED raised
               /\ IF Get(r.result, "deployment_recommended", FALSE)
                  THEN /\ Goto("lifecycle", "promote")
                       /\ UNCHANGED last_cycle_time
                  ELSE /\ last_cycle_time' = now
                       /\ Goto("lifecycle", "sleep")
    /\ UNCHANGED <<runs, checks, running, drift_result, production_path>>
    /\ UNCHANGED <<regVars, monVars, engVars>>
    /\ UNCHANGED <<augVars, failVars, orphans, poll_pc, poll_result>>

\* Lines 88-90: promote_candidate_to_production on the registry.
LifecyclePromotes ==
    LET r == promote_body(registry_file) IN
    /\ tpc["lifecycle"] = "promote"
    /\ registry_file' = r.registry
    /\ last' = [name |-> "promote", ok |-> r.ok, seq |-> 1 - last.seq]
    /\ IF r.ok
       THEN /\ last_cycle_time' = now
            /\ Goto("lifecycle", "sleep")
            /\ steps' = steps \o <<"promote_call", "promote_return">>
            /\ UNCHANGED raised
       ELSE /\ Caught("lifecycle", "promote")
            /\ steps' = steps \o <<"promote_call", "promote_raise">>
            /\ UNCHANGED last_cycle_time
    /\ UNCHANGED <<now, pc, op, local, done, registered, lastRegistered>>
    /\ UNCHANGED <<runs, checks, running, drift_result, production_path>>
    /\ UNCHANGED <<benchVars, monVars, engVars>>
    /\ UNCHANGED sideVars

\* rl_training_loop lines 103-111: rl_engine.train_step() returns or raises.
RlIteration ==
    /\ tpc["rl"] = "test"
    /\ running
    /\ \E train_step_raises \in BOOLEAN :
          IF train_step_raises
          THEN Caught("rl", "train_step")
          ELSE Goto("rl", "sleep") /\ raised' = [raised EXCEPT !["rl"] = "none"]
    /\ UNCHANGED <<runs, checks, steps>>
    /\ UNCHANGED <<running, last_cycle_time, drift_result, production_path>>
    /\ UNCHANGED <<regVars, benchVars, monVars, engVars>>
    /\ UNCHANGED sideVars

\* ModelRegistry.health_status and RLEngine.health_status, as
\* system_health_snapshot calls them: the registry's raises when the file
\* cannot be parsed, else its "status" is "OK".
registry_health(file) ==
    IF IsCorrupt(file)
    THEN [raised |-> TRUE, status |-> "raised"]
    ELSE [raised |-> FALSE, status |-> "OK"]

\* health_supervision_loop lines 119-132: refresh_registry runs when the
\* registry's status is not "OK".
HealthIteration ==
    LET h == registry_health(registry_file) IN
    /\ tpc["health"] = "test"
    /\ running
    /\ IF h.raised
       THEN /\ Caught("health", "snapshot")
            /\ UNCHANGED <<registry_file, last>>
       ELSE /\ Goto("health", "sleep")
            /\ raised' = [raised EXCEPT !["health"] = "none"]
            /\ IF h.status # "OK"
               THEN /\ registry_file' = default_registry
                    /\ last' = [name |-> "refresh", ok |-> TRUE,
                                seq |-> 1 - last.seq]
               ELSE UNCHANGED <<registry_file, last>>
    /\ UNCHANGED <<now, pc, op, local, done, registered, lastRegistered>>
    /\ UNCHANGED <<runs, checks, steps>>
    /\ UNCHANGED <<running, last_cycle_time, drift_result, production_path>>
    /\ UNCHANGED <<benchVars, monVars, engVars>>
    /\ UNCHANGED sideVars

\* The steps of the lifecycle thread after its drift check.
LifecycleStep ==
    \/ LoopWakes("lifecycle")
    \/ LifecycleBegins
    \/ MonitorRetrainEnds
    \/ AfterDriftCheck
    \/ RetrainEnds
    \/ BenchmarkStarts
    \/ BenchmarkEnds

LifeNext ==
    \/ Start
    \/ Stop
    \/ LifeRegistryCall
    \/ \E k \in Kinds : LoopExits(k)
    \/ LoopWakes("rl")
    \/ LoopWakes("health")
    \/ RlIteration
    \/ HealthIteration
    \/ (Len(checks) < MaxCycles /\ DriftCheck)
    \/ LifecycleStep
    \/ LifecyclePromotes

\* The three threads, start() and stop(), and the other callers of the
\* registry, within one clock second.
LifeSpec == Init /\ [][LifeNext]_vars

CooldownNext ==
    \/ Start
    \/ Stop
    \/ LifeTick
    \/ CooldownRegistryCall
    \/ LoopExits("lifecycle")
    \/ (Len(checks) < MaxChecks /\ DriftCheck)
    \/ LifecycleStep

\* The lifecycle thread over more than one cooldown period; no candidate
\* is registered, so no benchmark recommends a deployment.
CooldownSpec == Init /\ [][CooldownNext]_vars

SetupNext ==
    \/ SetupTick
    \/ SetupRegistryCall
    \/ Start
    \/ (Len(checks) < MaxCycles /\ DriftCheck)
    \/ LifecycleStep
    \/ LifecyclePromotes

\* The lifecycle thread started on a registry that other callers have
\* filled, and left alone afterwards.
SetupSpec == Init /\ [][SetupNext]_vars

\* run_retraining_pipeline called on its own (routes/monitoring.py).
PipeRun ==
    /\ Len(runs) < MaxPipeRuns
    /\ \E scenario \in PipelineScenarios :
          LET r == run_retraining_pipeline(scenario)
              k == Len(runs) + 1
          IN /\ runs' = Append(runs, [engine |-> "controller",
                                      started_at |-> now,
                                      scenario |-> scenario,
                                      status |-> IF r.raised THEN "raised"
                                                 ELSE r.status])
             /\ last_run_status' =
                   [last_run_status EXCEPT
                       !["controller"] = IF r.raised THEN "running"
                                         ELSE r.status]
             /\ artifacts' = [forecast |-> IF r.forecast_written THEN k
                                           ELSE artifacts.forecast,
                              anomaly |-> IF r.anomaly_written THEN k
                                          ELSE artifacts.anomaly]
    /\ UNCHANGED <<checks, steps, raised>>
    /\ UNCHANGED <<regVars, benchVars, monVars, ctlVars>>
    /\ UNCHANGED sideVars

PipeNext ==
    \/ Tick
    \/ BenchRegistryCall
    \/ PipeRun

PipeSpec == Init /\ [][PipeNext]_vars

\* ------------------------------------------------------------ DriftSpec
\* Another caller logs a performance report, with an accuracy of 50 or of
\* 95 percent.
DriftRegistryCall ==
    /\ Len(SelectSeq(registry_file.history, IsPerformance)) < MaxDriftLogs
    /\ \E m \in MetricValues : SeqCall([name |-> "log", arg |-> m])

DriftNext ==
    \/ Start
    \/ DriftRegistryCall
    \/ (Len(checks) < MaxChecks /\ DriftCheck)
    \/ LifecycleStep

\* The lifecycle thread over several drift checks within one cooldown
\* period, while performance reports come in.
DriftSpec == Init /\ [][DriftNext]_vars

\* ---------------------------------------------------------- HistorySpec
\* time.sleep(settings.RUNTIME_LIFECYCLE_INTERVAL), line 95, returns after
\* the interval.
LifecycleSleeps ==
    /\ tpc["lifecycle"] = "sleep"
    /\ now' = now + RUNTIME_LIFECYCLE_INTERVAL
    /\ Goto("lifecycle", "test")
    /\ UNCHANGED <<registry_file, pc, op, local, done, last, registered, lastRegistered>>
    /\ UNCHANGED <<running, last_cycle_time, drift_result, production_path>>
    /\ UNCHANGED <<benchVars, monVars, engVars, logVars>>
    /\ UNCHANGED sideVars

HistoryNext ==
    \/ Start
    \/ LifecycleSleeps
    \/ LifecycleBegins
    \/ (Len(checks) < MaxHistoryChecks /\ DriftCheck)
    \/ AfterDriftCheck

\* The lifecycle thread left alone on the default registry for more drift
\* checks than the monitor's history keeps, one check per interval.
HistorySpec == Init /\ [][HistoryNext]_vars

\* ----------------------------------------------------- BenchHistorySpec
\* get_history, lines 126-128, returns self.history[-50:].
BENCHMARK_HISTORY_WINDOW == 50

\* The first candidate is registered.
FirstRegistration ==
    /\ registry_file.history = <<>>
    /\ SeqCall([name |-> "register", arg |-> 1])

\* run_benchmark called again and again on the same registry: the
\* candidate scores the same each time the dataset can be read.
RepeatedBenchRun ==
    /\ Len(bench_history) < MaxBenchHistory
    /\ \E dataset \in Datasets :
          LET e == [load |-> "ok", predict |-> "ok", metrics |-> Metrics(10, 800)]
              r == run_benchmark(registry_file.production_model,
                                 registry_file.candidate_model,
                                 dataset, e, e, now) IN
          /\ bench_result' = r.result
          /\ bench_history' = benchmark_history_after(bench_history, r.result)
          /\ bench_dataset' = dataset
    /\ UNCHANGED <<regVars, monVars, engVars, ctlVars, logVars>>
    /\ UNCHANGED sideVars

BenchHistoryNext ==
    \/ FirstRegistration
    \/ RepeatedBenchRun

\* One candidate benchmarked more often than get_history reports.
BenchHistorySpec == Init /\ [][BenchHistoryNext]_vars

\* ------------------------------------------------------------- StopSpec
\* The steps of each of the three threads; the lifecycle thread begins at
\* most MaxCycles iterations.
LifecycleThread ==
    \/ LoopExits("lifecycle")
    \/ (Len(checks) < MaxCycles /\ LifecycleBegins)
    \/ DriftCheck
    \/ MonitorRetrainEnds
    \/ AfterDriftCheck
    \/ RetrainEnds
    \/ BenchmarkStarts
    \/ BenchmarkEnds
    \/ LifecyclePromotes
    \/ LoopWakes("lifecycle")

RlThread ==
    \/ LoopExits("rl")
    \/ RlIteration
    \/ LoopWakes("rl")

HealthThread ==
    \/ LoopExits("health")
    \/ HealthIteration
    \/ LoopWakes("health")

StopNext ==
    \/ Start
    \/ Stop
    \/ (Len(registry_file.history) < MaxStopEvents /\ OtherRegistryCall)
    \/ LifecycleThread
    \/ RlThread
    \/ HealthThread

\* start(), stop() and the three threads, each of which keeps being
\* scheduled: a thread that can take a step takes one, and time.sleep
\* returns.
StopSpec ==
    /\ Init /\ [][StopNext]_vars
    /\ WF_vars(LifecycleThread)
    /\ WF_vars(RlThread)
    /\ WF_vars(HealthThread)

\* --------------------------------------------------------- DriftErrSpec
\* In DriftErrNext another caller logs a performance report with an
\* accuracy of 95 percent; the call is left out when the file cannot be
\* parsed (it would raise in _load_registry).
DriftErrNext ==
    \/ Start
    \/ (/\ ~IsCorrupt(registry_file)
        /\ Len(SelectSeq(registry_file.history, IsPerformance)) < MaxLogs
        /\ SeqCall([name |-> "log", arg |-> 95]))
    \/ \E w \in Workers : OpenForRefresh(w) \/ Dump(w)
    \/ LoopWakes("lifecycle")
    \/ LifecycleBegins
    \/ (Len(checks) < MaxChecks /\ DriftCheck)
    \/ AfterDriftCheck

\* The lifecycle thread beside threads that rewrite the registry file
\* (refresh_registry), so that a drift check may find the file truncated;
\* every report is above the accuracy that triggers a retraining.
DriftErrSpec == Init /\ [][DriftErrNext]_vars

\* ------------------------------------------------------------- RaceSpec
\* In RaceNext another caller registers a candidate or logs a performance
\* report of 50 percent, at any moment.
RaceNext ==
    \/ Start
    \/ Tick
    \/ (/\ Len(registry_file.history) < MaxRaceEvents
        /\ SeqCall([name |-> "register", arg |-> 1]))
    \/ CooldownRegistryCall
    \/ (Len(checks) < MaxCycles /\ DriftCheck)
    \/ LifecycleStep
    \/ LifecyclePromotes

\* The lifecycle thread while seconds pass and other callers register
\* candidates, so that artifacts registered at different moments differ.
RaceSpec == Init /\ [][RaceNext]_vars

\* ---------------------------------------------------------- RestartSpec
\* start(), lines 50-64, whenever it is called: it returns at once when
\* the flag is set; else it sets the flag and starts three daemon threads
\* without waiting for the threads of an earlier start().  tpc follows
\* the new threads; an older thread that is still alive is counted in
\* orphans.
StartAnytime ==
    /\ \A k \in Kinds : orphans[k] < MaxOrphans
    /\ IF running
       THEN UNCHANGED <<running, tpc, orphans>>
       ELSE /\ running' = TRUE
            /\ tpc' = [k \in Kinds |-> "test"]
            /\ orphans' = [k \in Kinds |->
                              orphans[k] + (IF tpc[k] \notin {"none", "exited"} THEN 1 ELSE 0)]
    /\ UNCHANGED <<last_cycle_time, drift_result, production_path>>
    /\ UNCHANGED <<regVars, benchVars, monVars, engVars, logVars>>
    /\ UNCHANGED <<augVars, failVars, candidate_path, poll_pc, poll_result>>

\* An older thread of loop k reaches `while self.running` with the flag
\* false and exits; with the flag true it goes on looping.
OrphanExits(k) ==
    /\ orphans[k] > 0
    /\ ~running
    /\ orphans' = [orphans EXCEPT ![k] = @ - 1]
    /\ UNCHANGED <<regVars, benchVars, monVars, engVars, ctlVars, logVars>>
    /\ UNCHANGED <<augVars, failVars, candidate_path, poll_pc, poll_result>>

RestartNext ==
    \/ StartAnytime
    \/ Stop
    \/ \E k \in Kinds : LoopExits(k)
    \/ \E k \in Kinds : LoopWakes(k)
    \/ \E k \in Kinds : OrphanExits(k)
    \/ RlIteration
    \/ HealthIteration
    \/ LifecycleBegins
    \/ (Len(checks) < MaxCycles /\ DriftCheck)
    \/ AfterDriftCheck

\* start() and stop() called at any moment on one controller whose
\* registry nobody else writes.
RestartSpec == Init /\ [][RestartNext]_vars

\* ---------------------------------------------------------- ManualSpec
\* POST /run-cycle (routes/runtime_control.py, run_manual_cycle): a request
\* handler calls run_drift_check on the Drift Monitor of the runtime
\* controller, the one the lifecycle thread calls.  poll_pc is its
\* position: "idle", "mon_retrain" (inside the monitor's pipeline run) or
\* "retrain" (inside its own pipeline run); poll_result holds its locals.

\* Line 81 and run_drift_check lines 37-49.
ManualDriftCheck ==
    /\ poll_pc = "idle"
    /\ \E current_data \in {<<>>, <<1>>}, shift \in {0, 200} :
          LET drift_score == calculate_multi_feature_shift(
                                 current_data, get_training_dataset, shift)
              performance_drift == evaluate_model_performance(registry_file)
              retrain_required == should_trigger_retraining(drift_score,
                                                            performance_drift)
          IN IF retrain_required
                /\ retraining_cooldown_passed(last_retrain_time, now)
             THEN /\ PipelineStarts("monitor")
                  /\ poll_result' = [status |-> "checking",
                                     drift_score |-> drift_score,
                                     performance_drift |-> performance_drift,
                                     called_at |-> now,
                                     run |-> Len(runs) + 1]
                  /\ poll_pc' = "mon_retrain"
                  /\ UNCHANGED <<monVars, checks>>
             ELSE /\ MonitorReturns(drift_score, performance_drift,
                                    retrain_required, FALSE, now)
                  /\ IF retrain_required
                     THEN /\ PipelineStarts("controller")
                          /\ poll_result' = [status |-> "retraining",
                                             run |-> Len(runs) + 1]
                          /\ poll_pc' = "retrain"
                     ELSE /\ poll_result' = [status |-> "not_required"]
                          /\ poll_pc' = "idle"
                          /\ UNCHANGED <<engVars, runs>>
    /\ UNCHANGED <<steps, raised, ctlVars>>
    /\ UNCHANGED <<regVars, benchVars>>
    /\ UNCHANGED <<augVars, failVars, candidate_path, orphans>>

\* run_drift_check lines 48-71 inside the request, then line 83-84: the
\* monitor's pipeline run ends, the check returns retraining_triggered
\* and the handler starts the controller's pipeline run.
ManualMonitorRetrainEnds ==
    /\ poll_pc = "mon_retrain"
    /\ \E scenario \in LifeScenarios :
          LET r == run_retraining_pipeline(scenario)
              k == poll_result.run
              ended == [runs EXCEPT ![k].scenario = scenario,
                                    ![k].status = IF r.raised THEN "raised"
                                                  ELSE r.status]
          IN /\ last_run_status' =
                   [last_run_status EXCEPT
                       !["monitor"] = IF r.raised THEN @ ELSE r.status,
                       !["controller"] = IF r.raised THEN @ ELSE "running"]
             /\ artifacts' = [forecast |-> IF r.forecast_written THEN k
                                           ELSE artifacts.forecast,
                              anomaly |-> IF r.anomaly_written THEN k
                                          ELSE artifacts.anomaly]
             /\ IF r.raised
                THEN /\ runs' = ended
                     /\ poll_result' = [status |-> "raised"]
                     /\ poll_pc' = "idle"
                     /\ UNCHANGED <<monVars, checks>>
                ELSE /\ MonitorReturns(poll_result.drift_score,
                                       poll_result.performance_drift,
                                       TRUE, TRUE, poll_result.called_at)
                     /\ runs' = Append(ended,
                                       [engine |-> "controller",
                                        started_at |-> now,
                                        scenario |-> "running",
                                        status |-> "running"])
                     /\ poll_result' = [status |-> "retraining",
                                        run |-> Len(runs) + 1]
                     /\ poll_pc' = "retrain"
    /\ UNCHANGED <<steps, raised, ctlVars>>
    /\ UNCHANGED <<regVars, benchVars>>
    /\ UNCHANGED <<augVars, failVars, candidate_path, orphans>>

\* Line 84 returns and the handler answers, lines 88-92.
ManualRetrainEnds ==
    /\ poll_pc = "retrain"
    /\ \E scenario \in LifeScenarios :
          LET r == run_retraining_pipeline(scenario) IN
          /\ RunEnds(poll_result.run, scenario, r)
          /\ poll_result' = [status |-> IF r.raised THEN "raised"
                                        ELSE r.status]
    /\ poll_pc' = "idle"
    /\ UNCHANGED <<checks, steps, raised, ctlVars>>
    /\ UNCHANGED <<regVars, benchVars, monVars>>
    /\ UNCHANGED <<augVars, failVars, candidate_path, orphans>>

ManualNext ==
    \/ Start
    \/ CooldownRegistryCall
    \/ (Len(checks) < MaxManualChecks /\ ManualDriftCheck)
    \/ ManualMonitorRetrainEnds
    \/ ManualRetrainEnds
    \/ (Len(checks) < MaxManualChecks /\ DriftCheck)
    \/ LifecycleStep

\* The lifecycle thread and /run-cycle requests on the same Drift Monitor.
ManualSpec == Init /\ [][ManualNext]_vars

\* ----------------------------------------------------------- HealthSpec
HealthNext ==
    \/ Start
    \/ Stop
    \/ LoopExits("health")
    \/ LoopWakes("health")
    \/ HealthIteration
    \/ \E w \in Workers :
          \/ LoadRegistry(w)
          \/ LoadRaises(w)
          \/ BodyRaises(w)
          \/ OpenForSave(w)
          \/ OpenForRefresh(w)
          \/ Dump(w)

\* The health-supervision thread beside threads that call the registry
\* with no lock: an iteration may find the file truncated or garbled.
HealthSpec == Init /\ [][HealthNext]_vars

\* ------------------------------------------------------------- FailSpec
\* core/enterprise_failover_controller.py.  The controller holds its own
\* ModelRegistry object on the same registry file.

\* The public and private methods class ModelRegistry defines.
ModelRegistryMethods ==
    {"__init__", "_initialize_registry", "_load_registry", "_save_registry",
     "register_candidate_model", "promote_candidate_to_production",
     "rollback_production_model", "get_production_model_path",
     "get_candidate_model_path", "get_registry_snapshot",
     "log_model_performance", "get_latest_model_performance",
     "health_status", "refresh_registry", "get_training_dataset"}

\* The fields of the controller object.
controller ==
    [degraded_mode_active |-> degraded_mode_active,
     last_failover_time |-> last_failover_time,
     running |-> failover_running]

\* What a method of the controller leaves behind: the dict it returns
\* (status, timestamp), the fields of the controller and the registry file.
Outcome(status, timestamp, c, file) ==
    [status |-> status, timestamp |-> timestamp, controller |-> c, registry |-> file]

\* switch_to_backup_model, lines 56-79: the lookup of get_backup_model on
\* the registry object raises AttributeError, since the class defines no
\* such method; `except Exception` turns it into failover_failed.
switch_to_backup_model(c, file, t) ==
    CASE "get_backup_model" \notin ModelRegistryMethods ->
            Outcome("failover_failed", Null, c, file)

\* activate_degraded_mode, lines 84-97
activate_degraded_mode(c, file, t) ==
    Outcome("degraded_mode_enabled", t,
            [c EXCEPT !.degraded_mode_active = TRUE, !.last_failover_time = t],
            file)

\* deactivate_degraded_mode, lines 99-101: returns None.
deactivate_degraded_mode(c, file, t) ==
    Outcome("None", Null, [c EXCEPT !.degraded_mode_active = FALSE], file)

rollback_rl_policy_leaves_degraded_mode(c, file, t) ==
    Outcome("rl_policy_rolled_back", t,
            [c EXCEPT !.degraded_mode_active = FALSE], file)

\* rollback_rl_policy, lines 106-121
rollback_rl_policy(c, file, t) ==
    Outcome("rl_policy_rolled_back", t, c, file)

handle_system_failure_overload_by_default(failure_type, c, file, t) ==
    IF failure_type = "model_failure" THEN switch_to_backup_model(c, file, t)
    ELSE IF failure_type = "rl_instability" THEN rollback_rl_policy(c, file, t)
    ELSE activate_degraded_mode(c, file, t)

\* handle_system_failure, lines 126-142
handle_system_failure(failure_type, c, file, t) ==
    IF failure_type = "model_failure" THEN switch_to_backup_model(c, file, t)
    ELSE IF failure_type = "rl_instability" THEN rollback_rl_policy(c, file, t)
    ELSE IF failure_type = "critical_overload" THEN activate_degraded_mode(c, file, t)
    ELSE Outcome("unknown_failure_type", Null, c, file)

\* A call of the controller returns r.
FailoverReturns(call, kind, r) ==
    /\ degraded_mode_active' = r.controller.degraded_mode_active
    /\ last_failover_time' = r.controller.last_failover_time
    /\ failover_running' = r.controller.running
    /\ registry_file' = r.registry
    /\ failover_log' = [call |-> call, kind |-> kind, status |-> r.status,
                        timestamp |-> r.timestamp, seq |-> 1 - failover_log.seq]
    /\ UNCHANGED <<now, pc, op, local, done, last, registered, lastRegistered>>
    /\ UNCHANGED <<benchVars, monVars, engVars, ctlVars, logVars, augVars, raceVars>>

\* start, lines 39-46, and stop, lines 48-51: both return None.
FailoverStart ==
    FailoverReturns("start", "",
                    Outcome("None", Null,
                            [controller EXCEPT !.running = TRUE],
                            registry_file))

FailoverStop ==
    FailoverReturns("stop", "",
                    Outcome("None", Null,
                            [controller EXCEPT !.running = FALSE],
                            registry_file))

SwitchToBackupModel ==
    FailoverReturns("switch_to_backup_model", "",
                    switch_to_backup_model(controller, registry_file, now))

ActivateDegradedMode ==
    FailoverReturns("activate_degraded_mode", "",
                    activate_degraded_mode(controller, registry_file, now))

DeactivateDegradedMode ==
    FailoverReturns("deactivate_degraded_mode", "",
                    deactivate_degraded_mode(controller, registry_file, now))

RollbackRlPolicy ==
    FailoverReturns("rollback_rl_policy", "",
                    rollback_rl_policy(controller, registry_file, now))

\* The failure types handle_system_failure knows, and one it does not.
HandleSystemFailure ==
    \E failure_type \in {"model_failure", "rl_instability",
                          "critical_overload", "disk_full"} :
        FailoverReturns("handle_system_failure", failure_type,
                        handle_system_failure(failure_type, controller,
                                              registry_file, now))

FailNext ==
    \/ FailoverStart
    \/ FailoverStop
    \/ SwitchToBackupModel
    \/ ActivateDegradedMode
    \/ DeactivateDegradedMode
    \/ RollbackRlPolicy
    \/ HandleSystemFailure
    \/ (Len(registry_file.history) < MaxFailEvents /\ OtherRegistryCall)
    \/ Start
    \/ (Len(checks) < MaxCycles /\ DriftCheck)
    \/ LifecycleStep
    \/ LifecyclePromotes

\* The failover controller called in any order, beside the lifecycle
\* thread and the other callers of the registry, within one clock second.
FailSpec == Init /\ [][FailNext]_vars

\* -------------------------------------------------------------- AugSpec
\* RetrainingEngine._augment_training_data (ai_engine/retraining_engine.py).
\* A row is a record of the six fields the step rewrites; the continuous
\* fields and their jitter are whole numbers, the jitter of hour and
\* day_of_week is in tenths, so that np.round has something to round.

\* The arguments of the six np.clip calls, lines 87-116.
Clamps ==
    [temperature |-> <<-30, 70>>,
     humidity |-> <<0, 100>>,
     occupancy |-> <<0, 20000>>,
     energy_usage_kwh |-> <<0, 100000>>,
     hour |-> <<0, 23>>,
     day_of_week |-> <<0, 6>>]

Fields == DOMAIN Clamps

np_clip_lower_only(x, lo, hi) == IF x < lo THEN lo ELSE x

\* np.clip
np_clip(x, lo, hi) == IF x < lo THEN lo ELSE IF x > hi THEN hi ELSE x

\* np.round of tenths/10: to the nearest whole number, halves to the even one.
np_round(tenths) ==
    LET q == tenths \div 10
        r == tenths % 10
    IN IF r < 5 THEN q
       ELSE IF r > 5 THEN q + 1
       ELSE IF q % 2 = 0 THEN q ELSE q + 1

\* Lines 86-116 for one sampled row and the noise drawn for it.
jitter_row(row, noise) ==
    [f \in Fields |->
        IF f \in {"hour", "day_of_week"}
        THEN np_clip(np_round(10 * row[f] + noise[f]),
                     Clamps[f][1], Clamps[f][2])
        ELSE np_clip(row[f] + noise[f], Clamps[f][1], Clamps[f][2])]

\* Input rows: inside the clamps, on their edges, and outside them.
AugRows ==
    {[temperature |-> 20, humidity |-> 50, occupancy |-> 100,
      energy_usage_kwh |-> 500, hour |-> 12, day_of_week |-> 3],
     [temperature |-> 70, humidity |-> 100, occupancy |-> 0,
      energy_usage_kwh |-> 0, hour |-> 23, day_of_week |-> 0],
     [temperature |-> 90, humidity |-> 150, occupancy |-> 25000,
      energy_usage_kwh |-> 100, hour |-> 30, day_of_week |-> 9]}

\* Values of rng.normal for one row: none, large upward, large downward.
AugNoise ==
    {[f \in Fields |-> 0],
     [temperature |-> 5, humidity |-> 8, occupancy |-> 40,
      energy_usage_kwh |-> 20, hour |-> 25, day_of_week |-> 15],
     [temperature |-> -5, humidity |-> -8, occupancy |-> -40,
      energy_usage_kwh |-> -20, hour |-> -25, day_of_week |-> -15]}

RECURSIVE concat(_)
\* pd.concat(frames, ignore_index=True)
concat(fs) == IF Len(fs) = 0 THEN <<>> ELSE Head(fs) \o concat(Tail(fs))

\* sum(len(frame) for frame in frames)
total_rows(fs) == Len(concat(fs))

\* .head(n)
head(rows, n) == IF Len(rows) <= n THEN rows ELSE SubSeq(rows, 1, n)

while_continues_stops_early(fs, target_rows) ==
    total_rows(fs) + Len(fs[1]) < target_rows

\* Line 79: the test of the while loop.
while_continues(fs, target_rows) == total_rows(fs) < target_rows

\* target_rows = max(min_rows, len(df)), line 77
target_rows == Max(min_rows, Len(df))

\* Lines 72-77: the call, with its early return.
AugCall ==
    /\ aug_pc = "idle"
    /\ aug_return.status = "none"
    /\ \E d \in UNION {[1..n -> AugRows] : n \in 1..MaxRows},
          m \in 1..MaxMinRows :
          /\ df' = d
          /\ min_rows' = m
          /\ IF Len(d) >= m
             THEN /\ aug_return' = [status |-> "returned", final_df |-> d,
                                    augmented |-> FALSE]
                  /\ UNCHANGED <<aug_pc, frames>>
             ELSE /\ frames' = <<d>>
                  /\ aug_pc' = "while"
                  /\ UNCHANGED aug_return
    /\ UNCHANGED <<regVars, benchVars, monVars, engVars, ctlVars, logVars, failVars, raceVars>>

\* Lines 79-118: one pass of the loop: df.sample with replacement, the
\* noise of each sampled row, and frames.append.
AugLoop ==
    /\ aug_pc = "while"
    /\ while_continues(frames, target_rows)
    /\ \E sample \in [1..Len(df) -> 1..Len(df)],
          noise \in [1..Len(df) -> AugNoise] :
          frames' = Append(frames,
                           [i \in 1..Len(df) |->
                               jitter_row(df[sample[i]], noise[i])])
    /\ UNCHANGED <<aug_pc, df, min_rows, aug_return>>
    /\ UNCHANGED <<regVars, benchVars, monVars, engVars, ctlVars, logVars, failVars, raceVars>>

\* Lines 120-122: the loop has ended.
AugReturn ==
    /\ aug_pc = "while"
    /\ ~while_continues(frames, target_rows)
    /\ aug_return' = [status |-> "returned",
                      final_df |-> head(concat(frames), target_rows),
                      augmented |-> TRUE]
    /\ aug_pc' = "idle"
    /\ UNCHANGED <<df, min_rows, frames>>
    /\ UNCHANGED <<regVars, benchVars, monVars, engVars, ctlVars, logVars, failVars, raceVars>>

AugNext ==
    \/ AugCall
    \/ AugLoop
    \/ AugReturn

\* One call of the augmentation step.
AugSpec == Init /\ [][AugNext]_vars

\* The thread that runs the call keeps running.
AugLiveSpec == AugSpec /\ WF_vars(AugLoop) /\ WF_vars(AugReturn)

\* ================================================================ claims
history == registry_file.history
promotions == previous_models(history)
IsRollback(x) == x.event = "rollback"
rollbacks == SelectSeq(history, IsRollback)
IsPointerEvent(x) == IsPromoted(x) \/ IsRollback(x)
PointerOf(x) == IF IsPromoted(x) THEN x.new_production ELSE x.target
IsPrefix(s, t) == Len(s) <= Len(t) /\ SubSeq(t, 1, Len(s)) = s

\* A step in which a call named n returns or raises.
CallStep(n) == last'.seq # last.seq /\ last'.name = n

\* The calls of bag b that returned (a call that raised saves nothing).
ReturnedCalls(b) ==
    LET S == {c \in BagToSet(b) : c.ok} IN [c \in S |-> b[c]]

\* Is there an order of the calls of bag b that, run one after the other
\* from registry reg, lets every call return what it returned and ends in
\* the registry the file holds?  A register call is replayed with the
\* path it returned.
RECURSIVE Serializable(_, _)
Serializable(b, reg) ==
    IF BagToSet(b) = {}
    THEN reg = registry_file
    ELSE \E c \in BagToSet(b) :
            LET r == CallBody(c, reg, c.ret) IN
            /\ r.ok
            /\ Serializable(b (-) SetToBag({c}), r.registry)

\* The artifacts registered in the history are pairwise distinct.
IsRegistered(x) == x.event = "candidate_registered"
DistinctArtifacts ==
    LET rg == SelectSeq(history, IsRegistered) IN
    \A i, j \in 1..Len(rg) : rg[i].path = rg[j].path => i = j

Quiescent == \A w \in Workers : pc[w] = "idle"
NoRefreshCalled ==
    /\ \A c \in BagToSet(done) : c.name # "refresh"
    /\ \A w \in Workers : op[w].name # "refresh"

\* C1: when the calls register_candidate, promote_candidate, rollback and
\* log_performance of concurrent workers have all completed, the persisted
\* registry is the result of running the completed calls in some sequential
\* order (no call's state change or history event is lost).
C1_CallsAreAtomic ==
    (Quiescent /\ NoRefreshCalled) =>
        /\ ~IsCorrupt(registry_file)
        /\ Serializable(ReturnedCalls(done), default_registry)

\* C2: immediately after a successful promote_candidate, production_model
\* is the artifact returned by the most recent register_candidate and
\* candidate_model is null.
C2_PromotedIsLatestRegistered ==
    (last.name = "promote" /\ last.ok) =>
        /\ registry_file.production_model = lastRegistered
        /\ registry_file.candidate_model = Null

C2_Witness ==
    /\ last.name = "promote" /\ last.ok
    /\ Len(promotions) = 2
    /\ Cardinality(registered) = 2
    /\ registry_file.production_model = lastRegistered
    /\ promotions[2].previous_production # lastRegistered

\* C3: after a successful rollback, production_model is the value it held
\* immediately before the most recent candidate_promoted event (that
\* event's previous_production); stated for histories whose registered
\* artifacts are pairwise distinct.
C3_RollbackUndoesLatestPromotion ==
    (last.name = "rollback" /\ last.ok /\ DistinctArtifacts) =>
        registry_file.production_model =
            promotions[Len(promotions)].previous_production

\* C4: with promotions A, B, C in the history and no rollback so far, a
\* rollback call returns, sets production_model to B and appends exactly
\* one event, a rollback whose target is B; candidate_model is kept.
C4_RollbackAfterThreePromotions ==
    [][(CallStep("rollback") /\ Len(promotions) = 3 /\ Len(rollbacks) = 0) =>
          /\ last'.ok
          /\ registry_file' =
                [registry_file EXCEPT
                    !.production_model = promotions[2].new_production,
                    !.history = Append(@, [event |-> "rollback",
                                           target |-> promotions[2].new_production])]
      ]_vars

C4_Witness ==
    /\ last.name = "rollback" /\ last.ok
    /\ Len(promotions) = 3 /\ Len(rollbacks) = 1
    /\ Cardinality({promotions[i].new_production : i \in 1..3}) = 3
    /\ registry_file.production_model = promotions[2].new_production
    /\ history[Len(history)] =
          [event |-> "rollback", target |-> promotions[2].new_production]

\* C5: with promotions of distinct artifacts A, B, C in the history, two
\* consecutive rollback calls walk backward: the first leaves
\* production_model = B, the second leaves production_model = A.
C5_TwoRollbacksWalkBackward ==
    ( /\ last.name = "rollback" /\ last.ok
      /\ Len(promotions) = 3 /\ Len(rollbacks) = 2
      /\ DistinctArtifacts
      /\ Len(history) >= 2
      /\ IsRollback(history[Len(history)])
      /\ IsRollback(history[Len(history) - 1]) ) =>
        /\ history[Len(history) - 1].target = promotions[2].new_production
        /\ registry_file.production_model = promotions[1].new_production

\* C6: a rollback call made while the history holds fewer than two
\* candidate_promoted events raises and leaves the registry unchanged.
C6_RollbackWithoutTargetFails ==
    [][(CallStep("rollback") /\ Len(promotions) < 2) =>
          (~last'.ok /\ registry_file' = registry_file)]_vars

C6_Witness ==
    /\ last.name = "rollback" /\ ~last.ok
    /\ Len(promotions) = 1
    /\ registry_file.production_model = promotions[1].new_production

\* C7: production_model is the artifact named by the most recent
\* candidate_promoted or rollback event of the history, or null when the
\* history has no such event.
C7_ProductionIsLatestPointerEvent ==
    LET pe == SelectSeq(history, IsPointerEvent) IN
    registry_file.production_model =
        IF Len(pe) = 0 THEN Null ELSE PointerOf(pe[Len(pe)])

C7_Witness ==
    LET pe == SelectSeq(history, IsPointerEvent) IN
    /\ Len(pe) >= 3
    /\ IsRollback(pe[Len(pe)])
    /\ registry_file.production_model = pe[Len(pe)].target
    /\ registry_file.production_model # promotions[Len(promotions)].new_production

\* C8: production_model is null or an artifact returned by an earlier
\* register_candidate call, and the target of every rollback event is the
\* new_production of an earlier candidate_promoted event.
C8_ProductionWasRegistered ==
    /\ registry_file.production_model \in registered \cup {Null}
    /\ \A i \in 1..Len(history) :
          IsRollback(history[i]) =>
              \E j \in 1..(i - 1) :
                  /\ IsPromoted(history[j])
                  /\ history[j].new_production = history[i].target

C8_Witness ==
    /\ last.name = "rollback" /\ last.ok
    /\ registry_file.production_model \in registered
    /\ registry_file.candidate_model \in registered
    /\ registry_file.candidate_model # registry_file.production_model

\* C9: the history is append-only: in every step the history before the
\* step is a prefix of the history after it.
C9_HistoryAppendOnly ==
    [][IsPrefix(history, history')]_vars

\* C10: a promote_candidate call made while candidate_model is null raises
\* and leaves the registry unchanged.
C10_PromoteWithoutCandidateFails ==
    [][(CallStep("promote") /\ registry_file.candidate_model = Null) =>
          (~last'.ok /\ registry_file' = registry_file)]_vars

C10_Witness ==
    /\ last.name = "promote" /\ ~last.ok
    /\ Len(history) > 0
    /\ IsPromoted(history[Len(history)])
    /\ registry_file.production_model # Null

\* ------------------------------------------------- claims on BenchSpec
Benchmarked(result) == "deployment_recommended" \in DOMAIN result

\* C11: deployment_recommended is true exactly when (candidate.mae <
\* production.mae and candidate.r2 > production.r2) or candidate.r2 >
\* production.r2 * 1.02; with production {mae 10, r2 0.80}, candidate
\* {9, 0.82} and {11, 0.83} give true and {11, 0.81} gives false.
C11_DeploymentRule ==
    Benchmarked(bench_result) =>
        LET p == bench_result.production_metrics
            c == bench_result.candidate_metrics
            d == bench_result.deployment_recommended
        IN /\ d = ( \/ (c.mae < p.mae /\ c.r2_score > p.r2_score)
                    \/ 1000 * c.r2_score > 1020 * p.r2_score )
           /\ (p = Metrics(10, 800) /\ c = Metrics(9, 820)) => d
           /\ (p = Metrics(10, 800) /\ c = Metrics(11, 830)) => d
           /\ (p = Metrics(10, 800) /\ c = Metrics(11, 810)) => ~d

C11_Witness ==
    /\ Benchmarked(bench_result)
    /\ bench_result.production_metrics = Metrics(10, 800)
    /\ bench_result.candidate_metrics = Metrics(11, 830)
    /\ bench_result.deployment_recommended
    /\ registry_file.production_model # Null

\* C12: whenever the candidate artifact fails to load (it is scored
\* mae=999999, r2_score=-1), run_benchmark returns deployment_recommended =
\* false, whatever the production artifact's score is.
C12_UnloadableCandidateNeverWins ==
    (Benchmarked(bench_result)
        /\ bench_result.candidate_metrics = Unloadable) =>
        ~bench_result.deployment_recommended

\* ---------------------------------------------- claims on CooldownSpec
\* checks[i] and checks[i+1] are two successive run_drift_check calls of the
\* one Drift Monitor.
Triggered(i) == checks[i].triggered
Executed(i) == checks[i].executed
Blocked(i) == checks[i].triggered /\ ~checks[i].executed

\* C13: of two successive drift checks that both exceed the trigger
\* threshold and are called within RETRAIN_COOLDOWN_SECONDS of each other, at
\* most one runs the retraining pipeline; the check that retrains records the
\* retrain timestamp and the check that is blocked leaves it unchanged.
C13_CooldownBlocksSecondRetrain ==
    /\ \A i \in 1..(Len(checks) - 1) :
          ( /\ Triggered(i) /\ Triggered(i + 1)
            /\ checks[i + 1].called_at - checks[i].called_at
                  <= RETRAIN_COOLDOWN_SECONDS )
          => ~(Executed(i) /\ Executed(i + 1))
    /\ \A i \in 1..Len(checks) :
          /\ Executed(i) =>
                /\ checks[i].retrain_time_after # Null
                /\ checks[i].retrain_time_after >= checks[i].called_at
                /\ checks[i].retrain_time_after <= checks[i].result.timestamp
          /\ Blocked(i) =>
                checks[i].retrain_time_after = checks[i].retrain_time_before

\* The second check is called exactly one cooldown after the first, which
\* retrained, and is blocked.
C13_Witness ==
    \E i \in 1..(Len(checks) - 1) :
        /\ Executed(i)
        /\ Blocked(i + 1)
        /\ checks[i + 1].called_at - checks[i].called_at
              = RETRAIN_COOLDOWN_SECONDS
        /\ checks[i + 1].retrain_time_after = checks[i].retrain_time_after

\* C14: any two consecutive runs of the retraining pipeline caused by the
\* lifecycle loop, through its Drift Monitor or directly, start at least
\* RETRAIN_COOLDOWN_SECONDS apart, and no pipeline run is in progress in an
\* iteration whose triggered drift check was blocked by the cooldown.
C14_CooldownGatesEveryRetraining ==
    /\ \A i \in 1..(Len(runs) - 1) :
          runs[i + 1].started_at - runs[i].started_at
              >= RETRAIN_COOLDOWN_SECONDS
    /\ (tpc["lifecycle"] = "retrain" /\ Len(checks) > 0)
          => ~Blocked(Len(checks))

\* C20: the result of run_drift_check tells whether retraining was executed
\* now: a triggered check that was blocked by the cooldown and a triggered
\* check that retrained return results that differ in a field other than
\* the time of the check.
C20_ResultTellsExecution ==
    \A i, j \in 1..Len(checks) :
        (Triggered(i) /\ Triggered(j) /\ Executed(i) /\ Blocked(j))
        => \E f \in DOMAIN checks[i].result \ {"timestamp"} :
              checks[i].result[f] # checks[j].result[f]

\* -------------------------------------------------- claims on LifeSpec
\* The step in which the pipeline run in progress returns `status`.
RunReturns(status) ==
    /\ Len(runs) > 0
    /\ Len(runs') = Len(runs)
    /\ runs[Len(runs)].status = "running"
    /\ runs'[Len(runs)].status = status

\* C15: when run_retraining_pipeline returns status completed, the
\* registry's candidate_model is non-null and is the path of a
\* candidate_registered event of the history.
C15_CompletedRunRegistersCandidate ==
    [][RunReturns("completed") =>
          /\ registry_file'.candidate_model # Null
          /\ \E i \in 1..Len(registry_file'.history) :
                /\ IsRegistered(registry_file'.history[i])
                /\ registry_file'.history[i].path
                      = registry_file'.candidate_model]_vars

\* -------------------------------------------------- claims on PipeSpec
\* C16: a call of run_retraining_pipeline never raises; it returns status
\* skipped or failed for a missing, empty or unreadable dataset and for any
\* exception while training, persisting or reloading; and the registry's
\* candidate_model and production_model are the same after the call as
\* before it.
C16_PipelineNeverRaises ==
    [][Len(runs') = Len(runs) + 1 =>
          LET run == runs'[Len(runs')] IN
          /\ run.status \in {"skipped", "failed", "completed"}
          /\ run.scenario # "ok" => run.status \in {"skipped", "failed"}
          /\ run.scenario \in {"missing", "empty"} => run.status = "skipped"
          /\ last_run_status'["controller"] = run.status
          /\ registry_file'.candidate_model = registry_file.candidate_model
          /\ registry_file'.production_model = registry_file.production_model]_vars

\* A run on an unreadable dataset has returned failed while the registry
\* holds a candidate and a production model.
C16_Witness ==
    /\ Len(runs) = 1
    /\ runs[1].scenario = "unreadable"
    /\ runs[1].status = "failed"
    /\ registry_file.candidate_model # Null
    /\ registry_file.production_model # Null

\* steps is the record of the calls and returns of the current lifecycle
\* iteration.  a comes before every b in it:
Before(a, b) ==
    \A j \in 1..Len(steps) :
        steps[j] = b => \E i \in 1..(j - 1) : steps[i] = a

\* What may directly follow a call in steps.
FollowersOf(step) ==
    CASE step = "drift_call" -> {"drift_return", "monitor_retrain_call"}
      [] step = "monitor_retrain_call" ->
            {"monitor_retrain_return", "monitor_retrain_raise"}
      [] step = "retrain_call" -> {"retrain_return", "retrain_raise"}
      [] step = "benchmark_call" -> {"benchmark_return", "benchmark_raise"}
      [] step = "monitor_retrain_return" -> {"drift_return"}
      [] step = "drift_return" -> {"retrain_call"}
      [] step = "retrain_return" -> {"benchmark_call"}
      [] step = "benchmark_return" -> {"promote_call"}
      [] step = "promote_call" -> {"promote_return", "promote_raise"}
      [] OTHER -> {}

NoOverlap ==
    /\ Len(steps) > 0 => steps[1] = "drift_call"
    /\ \A j \in 1..(Len(steps) - 1) : steps[j + 1] \in FollowersOf(steps[j])

\* The monitor's retraining run starts before the drift check returns.
InsideDriftCheck ==
    \A j \in 1..Len(steps) :
        steps[j] = "monitor_retrain_call" =>
            \A i \in 1..(j - 1) : steps[i] # "drift_return"

\* C18 as stated: within one lifecycle iteration the drift check returns
\* before any retraining starts, retraining returns before the benchmark
\* starts, and the benchmark returns before promote_candidate is called.
C18_StepsStrictlyOrdered ==
    /\ Before("drift_return", "monitor_retrain_call")
    /\ Before("drift_return", "retrain_call")
    /\ Before("retrain_return", "benchmark_call")
    /\ Before("benchmark_return", "promote_call")

\* C18, amended: within one lifecycle iteration the loop's own steps are
\* ordered and do not overlap: the drift check returns before the loop's
\* retraining call, which returns before the benchmark starts, which returns
\* before promote_candidate is called; the Drift Monitor's own retraining
\* run starts and returns inside the drift check.
C18_LoopStepsOrdered ==
    /\ Before("drift_call", "monitor_retrain_call")
    /\ InsideDriftCheck
    /\ Before("monitor_retrain_call", "monitor_retrain_return")
    /\ Before("drift_return", "retrain_call")
    /\ Before("retrain_return", "benchmark_call")
    /\ Before("benchmark_return", "promote_call")
    /\ NoOverlap

C18_Witness ==
    steps = <<"drift_call", "monitor_retrain_call", "monitor_retrain_return",
              "drift_return", "retrain_call", "retrain_return",
              "benchmark_call", "benchmark_return",
              "promote_call", "promote_return">>

\* C19: no loop ends while the running flag is true, whatever a step of
\* its iteration raises (a promote_candidate error included): a thread leaves
\* its loop only at the while test with the flag false, a step that raises
\* takes the thread to the sleep of its interval, the sleep returns to the
\* while test, and from the while test with the flag true the next
\* iteration starts.
C19_ExceptionNeverEndsLoop ==
    [][\A k \in Kinds :
          /\ (tpc'[k] = "exited" /\ tpc[k] # "exited")
                => (tpc[k] = "test" /\ ~running)
          /\ (raised'[k] # raised[k] /\ raised'[k] # "none")
                => tpc'[k] = "sleep"
          /\ (tpc[k] = "sleep" /\ tpc'[k] # "sleep")
                => tpc'[k] = "test"
          /\ (tpc[k] = "test" /\ running /\ tpc'[k] # "test")
                => tpc'[k] = IF k = "lifecycle" THEN "drift" ELSE "sleep"]_vars

\* After a promote_candidate error the lifecycle loop has started its next
\* iteration, and the auxiliary-learning loop goes on after train_step raised.
C19_Witness ==
    /\ running
    /\ raised["lifecycle"] = "promote"
    /\ tpc["lifecycle"] = "drift"
    /\ Len(checks) = 1
    /\ raised["rl"] = "train_step"
    /\ tpc["rl"] = "test"

\* ------------------------------------------------- claims on SetupSpec
IsPipelineEvent(x) == ~IsPerformance(x)
pipeline_events == SelectSeq(history, IsPipelineEvent)
Worse(cand_metrics, prod_metrics) ==
    /\ cand_metrics.mae > prod_metrics.mae
    /\ cand_metrics.r2_score < prod_metrics.r2_score

\* C17: from an empty registry, register v1 then promote gives
\* production_model = v1 and exactly the two events candidate_registered,
\* candidate_promoted; after then registering v2 with worse benchmark
\* metrics, the benchmark of a lifecycle iteration recommends false and
\* the iteration leaves production_model = v1, candidate_model = v2 and adds
\* no candidate_promoted event.
C17_WorseCandidateStaysCandidate ==
    LET ev == pipeline_events IN
    /\ ( /\ Len(ev) = 2
         /\ IsRegistered(ev[1])
         /\ IsPromoted(ev[2]) )
       => /\ registry_file.production_model = ev[1].path
          /\ ev[2].new_production = ev[1].path
    /\ ( /\ Len(ev) >= 3
         /\ IsRegistered(ev[1])
         /\ IsPromoted(ev[2])
         /\ IsRegistered(ev[3])
         /\ ev[3].path # ev[1].path
         /\ Benchmarked(bench_result)
         /\ Worse(bench_result.candidate_metrics,
                  bench_result.production_metrics) )
       => /\ ~bench_result.deployment_recommended
          /\ Len(ev) = 3
          /\ registry_file.production_model = ev[1].path
          /\ registry_file.candidate_model = ev[3].path

\* --------------------------------------------------- claims on AugSpec
Returned_(r) == r.status = "returned"

InClamps(row) ==
    \A f \in Fields : row[f] >= Clamps[f][1] /\ row[f] <= Clamps[f][2]

FailoverStep(call) ==
    /\ failover_log' # failover_log
    /\ failover_log'.call = call

\* C23: switch_to_backup_model returns a status (it never raises), and
\* since the registry has no designated backup model, that status is
\* backup_not_available.
C23_NoBackupReportsNotAvailable ==
    (failover_log.call = "switch_to_backup_model") =>
        failover_log.status = "backup_not_available"

\* C24: handle_system_failure returns the result of switch_to_backup_model
\* for model_failure, of rollback_rl_policy for rl_instability and of
\* activate_degraded_mode for critical_overload, with that handler's
\* effect; for any other kind it returns unknown_failure_type and changes
\* neither the controller nor the registry.
C24_HandleSystemFailureDispatch ==
    [][FailoverStep("handle_system_failure") =>
         CASE failover_log'.kind = "model_failure" ->
                 /\ failover_log'.status \in {"backup_model_activated",
                                              "backup_not_available",
                                              "failover_failed"}
                 /\ UNCHANGED <<degraded_mode_active, failover_running>>
           [] failover_log'.kind = "rl_instability" ->
                 /\ failover_log'.status = "rl_policy_rolled_back"
                 /\ failover_log'.timestamp = now
                 /\ UNCHANGED <<degraded_mode_active, last_failover_time,
                                failover_running, registry_file>>
           [] failover_log'.kind = "critical_overload" ->
                 /\ failover_log'.status = "degraded_mode_enabled"
                 /\ failover_log'.timestamp = now
                 /\ degraded_mode_active'
                 /\ last_failover_time' = now
                 /\ UNCHANGED <<failover_running, registry_file>>
           [] OTHER ->
                 /\ failover_log'.status = "unknown_failure_type"
                 /\ UNCHANGED <<degraded_mode_active, last_failover_time,
                                failover_running, registry_file>>]_vars

\* handle_system_failure("critical_overload") has switched a running
\* controller to degraded mode.
C24_Witness ==
    /\ failover_log.call = "handle_system_failure"
    /\ failover_log.kind = "critical_overload"
    /\ failover_log.status = "degraded_mode_enabled"
    /\ degraded_mode_active
    /\ failover_running
    /\ last_failover_time = now

ActivateStep ==
    \/ FailoverStep("activate_degraded_mode")
    \/ /\ FailoverStep("handle_system_failure")
       /\ failover_log'.kind = "critical_overload"

DeactivateStep == FailoverStep("deactivate_degraded_mode")

\* C25: activate_degraded_mode (or handle_system_failure of
\* critical_overload) sets the flag; once set, every step other than a
\* call of deactivate_degraded_mode leaves it set; and neither activating
\* nor deactivating changes the registry.
C25_DegradedModeSticky ==
    [][/\ ActivateStep => degraded_mode_active'
       /\ (degraded_mode_active /\ ~DeactivateStep) => degraded_mode_active'
       /\ DeactivateStep => ~degraded_mode_active'
       /\ (ActivateStep \/ DeactivateStep) => registry_file' = registry_file]_vars

\* The flag is still set after another failover call, a promotion and a
\* drift check of the lifecycle thread.
C25_Witness ==
    /\ degraded_mode_active
    /\ failover_log.call = "rollback_rl_policy"
    /\ registry_file.production_model # Null
    /\ Len(checks) > 0

\* ------------------------------------------------ claims on HealthSpec
\* An iteration of the health-supervision loop has run its try block.
HealthIterationStep ==
    /\ tpc["health"] = "test"
    /\ tpc'["health"] = "sleep"

\* C26: an iteration of the health-supervision loop that finds the
\* registry unhealthy (here: the file cannot be parsed) calls refresh, so
\* the registry is the empty registry when the iteration ends.
C26_UnhealthyRegistryIsRefreshed ==
    [][(HealthIterationStep /\ IsCorrupt(registry_file)) =>
           registry_file' = default_registry]_vars

\* ------------------------------------------------- claims on DriftSpec
\* run_drift_check has computed its scores and its decision.
DriftCheckStep ==
    /\ tpc["lifecycle"] = "drift"
    /\ tpc'["lifecycle"] # "drift"

perf_reports == SelectSeq(registry_file.history, IsPerformance)

\* C27: the performance drift of a drift check is max(0, 1 - accuracy) of
\* the latest performance report, and the check reports
\* retraining_triggered exactly when its drift score is above
\* DRIFT_THRESHOLD or its performance drift is above
\* PERFORMANCE_DRIFT_THRESHOLD, whether or not the cooldown lets the
\* retraining run.
C27_TriggeredIffAboveThreshold ==
    [][/\ (DriftCheckStep /\ Len(perf_reports) > 0) =>
              drift_result'.performance_drift =
                  Max(0, 100 - perf_reports[Len(perf_reports)].metrics)
       /\ Len(checks') > Len(checks) =>
              LET r == checks'[Len(checks')].result IN
              /\ r.retraining_triggered <=>
                    (\/ r.drift_score > DRIFT_THRESHOLD
                     \/ r.performance_drift > PERFORMANCE_DRIFT_THRESHOLD)
              /\ r.performance_drift = drift_result'.performance_drift
              /\ (tpc["lifecycle"] = "mon_retrain") =>
                    /\ r.performance_drift = drift_result.performance_drift
                    /\ r.drift_score = drift_result.drift_score]_vars

\* The second check follows a report of 50 percent that came after one of
\* 95 percent: it reports the trigger although the cooldown blocks the
\* retraining.
C27_Witness ==
    /\ Len(checks) = 2
    /\ Len(perf_reports) = 2
    /\ perf_reports[1].metrics = 95
    /\ perf_reports[2].metrics = 50
    /\ checks[2].result.performance_drift = 50
    /\ checks[2].result.retraining_triggered
    /\ ~checks[2].executed
    /\ checks[1].executed

\* ----------------------------------------------- claims on HistorySpec
\* The record run_drift_check appends for the i-th check.
RecordOf(i) ==
    [timestamp |-> checks[i].result.timestamp,
     drift_score |-> checks[i].result.drift_score,
     performance_drift |-> checks[i].result.performance_drift]

\* C28: the history of the drift monitor holds at most 200 records, one
\* for each of the most recent drift checks, in call order and as they
\* were appended.
C28_HistoryIsLast200Checks ==
    /\ Len(drift_history) <= 200
    /\ Len(drift_history) = Min(Len(checks), 200)
    /\ \A i \in 1..Len(drift_history) :
          drift_history[i] = RecordOf(Len(checks) - Len(drift_history) + i)

\* After 202 checks the records of the first two are gone.
C28_Witness ==
    /\ Len(checks) = 202
    /\ Len(drift_history) = 200
    /\ drift_history[1] = RecordOf(3)
    /\ drift_history[1].timestamp < drift_history[2].timestamp
    /\ drift_history[200].timestamp = now

\* ------------------------------------------ claims on BenchHistorySpec
\* C29: the history the benchmark service stores never holds more than a
\* fixed number of results, the 50 that get_history reports.
C29_BenchmarkHistoryBounded ==
    Len(bench_history) <= BENCHMARK_HISTORY_WINDOW

\* ------------------------------------- claims on BenchSpec, second part
\* A call of run_benchmark has returned or raised.
BenchRunStep == <<bench_result, bench_dataset>>' # <<bench_result, bench_dataset>>

\* C30: run_benchmark returns no_candidate_model when the registry has no
\* candidate, whatever the dataset, and benchmark_dataset_missing when it
\* has a candidate and the dataset is missing; such a result carries no
\* deployment recommendation, and the call leaves the benchmark history
\* and the registry as they were.
C30_EarlyReturnsOfRunBenchmark ==
    [][BenchRunStep =>
         /\ (registry_file.candidate_model = Null) =>
               bench_result' = [status |-> "no_candidate_model"]
         /\ (registry_file.candidate_model # Null /\ bench_dataset' = "missing") =>
               bench_result' = [status |-> "benchmark_dataset_missing"]
         /\ (Get(bench_result', "status", "") \in
                {"no_candidate_model", "benchmark_dataset_missing"}) =>
               /\ "deployment_recommended" \notin DOMAIN bench_result'
               /\ bench_history' = bench_history
               /\ registry_file' = registry_file]_vars

\* After a promotion the registry has a production model and no
\* candidate: the call returns no_candidate_model although the dataset is
\* missing too.
C30_Witness ==
    /\ registry_file.production_model # Null
    /\ registry_file.candidate_model = Null
    /\ bench_dataset = "missing"
    /\ bench_result = [status |-> "no_candidate_model"]

\* -------------------------------------------------- claims on StopSpec
AllExited == \A k \in Kinds : tpc[k] \in {"none", "exited"}

\* C31: while the running flag is false no loop begins an iteration; a
\* loop ends only at its `while self.running` test, with the flag false,
\* never in the middle of an iteration; and once the flag is false every
\* loop has exited some time later.
C31_LoopsStopCooperatively ==
    /\ [][\A k \in Kinds :
            /\ (~running /\ tpc[k] = "test") => tpc'[k] \in {"test", "exited"}
            /\ (tpc'[k] = "exited" /\ tpc[k] # "exited") =>
                  (tpc[k] = "test" /\ ~running)]_vars
    /\ (~running) ~> AllExited

\* stop() came while the lifecycle loop was retraining: the iteration goes
\* on with the flag false, and the auxiliary loop has already exited.
C31_Witness ==
    /\ ~running
    /\ tpc["lifecycle"] = "retrain"
    /\ tpc["rl"] = "exited"
    /\ tpc["health"] = "sleep"

\* ---------------------------------------------- claims on DriftErrSpec
\* C32: a drift check whose reading of the latest performance raises (the
\* registry file cannot be parsed) counts the performance drift as 0; with
\* the drift score at or below its threshold it returns without raising,
\* reports no trigger, starts no retraining and appends its record to the
\* history.
C32_FailedScoreCountsAsNoDrift ==
    [][(DriftCheckStep /\ IsCorrupt(registry_file)) =>
          /\ Len(checks') = Len(checks) + 1
          /\ LET c == checks'[Len(checks')] IN
                /\ c.result.performance_drift = 0
                /\ c.result.drift_score <= DRIFT_THRESHOLD
                /\ ~c.result.retraining_triggered
                /\ ~c.executed
                /\ drift_history' =
                      Append(drift_history,
                             [timestamp |-> c.result.timestamp,
                              drift_score |-> c.result.drift_score,
                              performance_drift |-> 0])
          /\ drift_result' = checks'[Len(checks')].result
          /\ tpc'["lifecycle"] = "checked"
          /\ UNCHANGED <<runs, raised, last_retrain_time, last_run_status>>]_vars

\* The second check met a truncated registry file after a first one that
\* read a report.
C32_Witness ==
    /\ Len(checks) = 2
    /\ checks[1].result.performance_drift = 5
    /\ checks[2].result.performance_drift = 0
    /\ ~checks[2].result.retraining_triggered
    /\ Len(drift_history) = 2
    /\ IsCorrupt(registry_file)
    /\ tpc["lifecycle"] = "checked"

\* --------------------------------------- claims on LifeSpec, second part
Contains(seq, x) == \E i \in 1..Len(seq) : seq[i] = x

\* The drift check of the current iteration has returned untriggered.
UntriggeredIteration ==
    /\ Contains(steps, "drift_return")
    /\ ~Get(drift_result, "retraining_triggered", TRUE)

\* The lifecycle thread takes a step.
LifecycleActs == tpc'["lifecycle"] # tpc["lifecycle"]

\* C33: the lifecycle loop calls promote_candidate only after the benchmark
\* of the same iteration returned deployment_recommended = true; an
\* iteration whose drift check returned untriggered consists of the drift
\* check alone, and its steps start no pipeline run, run no benchmark and
\* leave the registry as it is.
C33_PromotionAndRetrainingAreGated ==
    /\ [](Contains(steps, "promote_call") =>
             /\ Contains(steps, "benchmark_return")
             /\ Get(bench_result, "deployment_recommended", FALSE))
    /\ [](UntriggeredIteration => steps = <<"drift_call", "drift_return">>)
    /\ [][(LifecycleActs /\ UntriggeredIteration') =>
             /\ registry_file' = registry_file
             /\ runs' = runs
             /\ bench_result' = bench_result
             /\ bench_history' = bench_history
             /\ tpc'["lifecycle"] \in {"checked", "sleep", "test", "exited"}]_vars

\* An iteration on a registry that holds a candidate ended after an
\* untriggered drift check.
C33_Witness ==
    /\ UntriggeredIteration
    /\ tpc["lifecycle"] = "sleep"
    /\ last_cycle_time = now
    /\ registry_file.candidate_model # Null
    /\ registry_file.production_model = Null
    /\ runs = <<>>

\* ---------------------------------------- claims on SeqSpec, second part
\* C34: the artifact reference a register_candidate_model call returns
\* differs from the reference every earlier call returned, and from the
\* current production artifact, also within one clock second.
C34_RegisterGivesFreshReference ==
    [][(CallStep("register") /\ last'.ok) =>
          /\ lastRegistered' \notin registered
          /\ lastRegistered' # registry_file.production_model]_vars

NotPerformance(x) == ~IsPerformance(x)

\* The registry as it would be had no performance report been logged.
WithoutReports(registry) ==
    [registry EXCEPT !.history = SelectSeq(@, NotPerformance)]

PointerCalls ==
    {[name |-> "register", arg |-> a] : a \in {0, 1}}
    \cup {[name |-> "promote", arg |-> 0], [name |-> "rollback", arg |-> 0]}

\* C35: a log_model_performance call returns, appends one
\* performance_logged event and changes nothing else of the registry; and
\* in every registry the calls reach, a register, promote or rollback call
\* fails or returns, and leaves the pointers and the other events, exactly
\* as it does in the registry without the performance reports.
C35_PerformanceLogIsIndependent ==
    /\ [][CallStep("log") =>
             /\ last'.ok
             /\ Len(registry_file'.history) = Len(history) + 1
             /\ SubSeq(registry_file'.history, 1, Len(history)) = history
             /\ IsPerformance(registry_file'.history[Len(history) + 1])
             /\ registry_file'.production_model = registry_file.production_model
             /\ registry_file'.candidate_model = registry_file.candidate_model]_vars
    /\ [](\A c \in PointerCalls :
             LET with == CallBody(c, registry_file, now)
                 without == CallBody(c, WithoutReports(registry_file), now)
             IN /\ with.ok = without.ok
                /\ with.ret = without.ret
                /\ WithoutReports(with.registry) = without.registry)

\* A report was logged between two promotions and the rollback that
\* followed returned.
C35_Witness ==
    /\ last.name = "rollback" /\ last.ok
    /\ Len(promotions) = 2
    /\ \E i \in 1..Len(history) :
          /\ IsPerformance(history[i])
          /\ \E j \in 1..(i - 1) : history[j].event = "candidate_promoted"
          /\ \E j \in (i + 1)..Len(history) : history[j].event = "candidate_promoted"

\* -------------------------------------------------- claims on RaceSpec
\* C36: the artifact a lifecycle iteration promotes is the candidate its
\* benchmark evaluated.
C36_PromotesTheBenchmarkedCandidate ==
    [][(tpc["lifecycle"] = "promote" /\ LifecycleActs /\ last'.ok) =>
          registry_file'.production_model = candidate_path]_vars

\* ----------------------------------------------- claims on RestartSpec
\* The threads of loop k that are alive.
alive_workers(k) == orphans[k] + (IF tpc[k] \notin {"none", "exited"} THEN 1 ELSE 0)

\* C37: at most one thread of each loop is alive, whatever the order of
\* the start() and stop() calls.
C37_OneWorkerOfEachKind ==
    \A k \in Kinds : alive_workers(k) <= 1

\* ------------------------------------------ further claims on BenchSpec
\* C38: a benchmark that recommends deployment scored the candidate's
\* r2_score strictly above the production's, for every pair of scores.
C38_RecommendedMeansBetterR2 ==
    (Benchmarked(bench_result) /\ bench_result.deployment_recommended) =>
        bench_result.candidate_metrics.r2_score >
            bench_result.production_metrics.r2_score

\* ------------------------------------------- further claims on PipeSpec
\* C39: a run_retraining_pipeline call that returns failed or skipped
\* leaves the forecast artifact and the anomaly artifact as they were
\* before the run.
C39_FailedRunKeepsArtifacts ==
    [][(/\ Len(runs') = Len(runs) + 1
        /\ runs'[Len(runs')].status \in {"failed", "skipped"})
          => artifacts' = artifacts]_vars

\* ------------------------------------------------ claims on ManualSpec
\* C40: two run_drift_check calls on the one Drift Monitor that overlap
\* invoke the Retraining Engine at most once: any two pipeline runs of the
\* monitor start more than RETRAIN_COOLDOWN_SECONDS apart.
C40_ConcurrentChecksRetrainOnce ==
    \A i, j \in 1..Len(runs) :
        (i < j /\ runs[i].engine = "monitor" /\ runs[j].engine = "monitor")
        => runs[j].started_at - runs[i].started_at > RETRAIN_COOLDOWN_SECONDS

====
